---- MODULE Spec2Model ----
(***************************************************************************)
(* The Lightstreamer client session of clambin/iss-exporter               *)
(* (lightstreamer/client.go): the session reader (serve / handleMessage), *)
(* the rebinder started on LOOP (handleLoop / rebind), the control        *)
(* callers (Subscribe / addSubscription), the bind wait of                 *)
(* ConnectWithSession (SessionEstablished), and Disconnect.                *)
(*                                                                         *)
(* The server is the environment: it answers the three endpoints and       *)
(* writes lines on the streaming bodies in any order.  A line is handled   *)
(* by the client in the step that delivers it (readAllMessages hands each  *)
(* parsed line to serve over an unbuffered channel, one at a time).        *)
(***************************************************************************)
EXTENDS Integers, Sequences, FiniteSets, TLC

\* ---------------------------------------------------------------- bounds
\* streaming bodies opened in one run (create_session plus bind_session)
MaxStreams == 2
\* lines other than U lines the server writes on the streaming bodies in one run
MaxEmit == 2
\* U lines the server writes on the streaming bodies in one run
MaxUpdates == 2
\* Subscribe calls made in one run of the whole session
MaxCalls == 1
\* Disconnect calls made in one run
MaxDisconnects == 2
\* Subscribe calls made in one run of the callers against the reader
MaxConcurrent == 2

\* ---------------------------------------------------------------- values
\* atomic.Value holding no string yet (sessionID.Load() == nil)
NoSession == "<nil>"
\* session ids a CONOK line can carry; parseCONOK accepts an empty first field
SessionIDs == {"", "s1"}
\* expected delays (seconds) a LOOP line can carry
Delays == {0, 1}
\* subscription ids a U line can carry
SubIDs == 1..MaxCalls
AllSubIDs == 1..MaxConcurrent
\* subscription.last[item] before the first update of the item: a nil Values
NoSnapshot == <<>>
\* the item every U line of the model is about
Item == 1
\* the token lists (the update body split on "|") a U line of the session
\* model can carry: each is a valid first update; the first two have one
\* slot (a value, and "unchanged"), the third has two and is invalid after
\* either of them, as they are after it
Bodies == {<<"a">>, <<"">>, <<"#", "b">>}

Streams == 1..MaxStreams
Callers == 1..MaxCalls
AllCallers == 1..MaxConcurrent

CONOK(sid) == [kind |-> "CONOK", SessionID |-> sid]
LOOP(d) == [kind |-> "LOOP", ExpectedDelay |-> d]
END == [kind |-> "END"]
U(k, b) == [kind |-> "U", SubscriptionID |-> k, Item |-> Item, Values |-> b]

\* the lines a server can write on a streaming body
Messages ==
    {CONOK(sid) : sid \in SessionIDs} \cup {LOOP(d) : d \in Delays}
        \cup {END} \cup {U(k, b) : k \in SubIDs, b \in Bodies}

\* what the control endpoint can answer: the two control replies, a line of
\* another kind, a line that does not parse, or a failed call
Replies == {"REQOK", "REQERR", "OTHER", "MALFORMED", "TRANSPORT"}

VARIABLES
    sessionID,       \* ClientSession.sessionID (atomic.Value)
    cancelFunc,      \* ClientSession.cancelFunc # nil
    ctxDone,         \* the context made by Connect is cancelled
    disconnects,     \* Disconnect calls made so far
    connections,     \* ClientSession.connections
    subscriptionID,  \* ClientSession.subscriptionID
    requestID,       \* ClientSession.requestID
    subscriptions,   \* registry: subscription id -> last snapshot of item 1
    callbacks,       \* the onUpdate invocations so far, in order
    nStreams,        \* streaming bodies opened so far
    serve,           \* per body: the serve task reading it
    eof,             \* per body: the server has ended it
    emitted,         \* lines other than U lines written by the server so far
    updates,         \* U lines written by the server so far
    held,            \* per body: the line readAllMessages is sending on ch
    handled,         \* the U lines whose callback has run, in that order
    loops,           \* the handleLoop tasks started so far
    bindPosts,       \* LS_session of every bind_session POST sent
    ctrlPosts,       \* LS_reqId, LS_subId, LS_session of every control POST sent
    call,            \* per Subscribe call: its position and locals
    waitPc,          \* the bind wait of the constructor
    timerFired,      \* the bind timeout has expired
    boundAtExpiry,   \* the session id was stored when the timeout expired
    endLogged,       \* an END line has been handled (it is only logged)
    panicked,        \* the process died of an unrecovered panic
    unknown,         \* ids of the updates handled without a registered subscription
    uLast,           \* Values.Update on its own: the receiver
    uValues,         \* Values.Update on its own: the token list
    uNext,           \* Values.Update on its own: what the call returned
    replyLine,       \* a control reply on its own: the fields of the line
    replyMsg,        \* a control reply on its own: what Subscribe makes of it
    parseLine,       \* the parsers on their own: the fields of the line
    sessionMsg,      \* the parsers on their own: what ParseSessionMessage returned
    controlMsg,      \* the parsers on their own: what ParseControlMessage returned
    input,           \* a body given line by line: the fields of its lines
    scan,            \* a body given line by line: the lines readAllMessages has read
    yielded,         \* a body given line by line: the messages sent on ch, in order
    variant,         \* the registry lock on its own: which ClientSession is run
    rwReaders,       \* the registry lock: read locks held, per task
    rwWriter,        \* the registry lock: the task holding the write lock
    rwWaiting,       \* the registry lock: the tasks blocked in Lock()
    updPc,           \* the registry lock: the reader's position in handleUpdate
    subPc,           \* the registry lock: each task's position in Subscribe
    decoder,         \* the snapshots per item: which Values.Update is run
    heap,            \* the snapshots per item: the backing arrays allocated
    last,            \* subscription.last of every subscription: the array of each item
    given,           \* the snapshots per item: the Values handed to the callbacks
    updateErr,       \* the snapshots per item: the error of the last update
    readerPc         \* serve and its reader: the statement readAllMessages is at

vars ==
    <<sessionID, cancelFunc, ctxDone, disconnects, connections, subscriptionID,
      requestID,
      subscriptions, callbacks, nStreams, serve, eof, emitted, updates, held,
      handled, loops,
      bindPosts, ctrlPosts, call, waitPc, timerFired, boundAtExpiry,
      endLogged, panicked, unknown, uLast, uValues, uNext, replyLine,
      replyMsg, parseLine, sessionMsg, controlMsg, input, scan, yielded,
      variant, rwReaders, rwWriter, rwWaiting, updPc, subPc,
      decoder, heap, last, given, updateErr, readerPc>>

sessionVars == <<sessionID, cancelFunc, ctxDone, disconnects, endLogged>>
registryVars == <<subscriptions, callbacks, unknown>>
idVars == <<subscriptionID, requestID>>
streamVars == <<nStreams, serve, eof, connections>>
serverVars == <<emitted, updates, held, handled>>
postVars == <<bindPosts, ctrlPosts>>
waitVars == <<waitPc, timerFired, boundAtExpiry>>
parseVars == <<parseLine, sessionMsg, controlMsg>>
lineVars == <<input, scan, yielded>>
lockVars == <<variant, rwReaders, rwWriter, rwWaiting, updPc, subPc>>
itemVars == <<decoder, heap, last, given, updateErr>>
pureVars ==
    <<uLast, uValues, uNext, replyLine, replyMsg, parseVars, lineVars, lockVars,
      itemVars, readerPc>>

IdleCall == [pc |-> "idle", subID |-> 0, reply |-> "", err |-> ""]

\* readAllMessages of a body holds no line
NoLine == [line |-> [kind |-> "none"], n |-> 0]

\* no call of Values.Update, no control reply
NoCall == [kind |-> "none", val |-> <<>>, err |-> ""]
NoReply == [class |-> "none", err |-> <<>>]

\* the session after NewClientSession
InitSession ==
    /\ sessionID = NoSession
    /\ cancelFunc = FALSE
    /\ ctxDone = FALSE
    /\ disconnects = 0
    /\ connections = 0
    /\ subscriptionID = 0
    /\ requestID = 0
    /\ subscriptions = [k \in {} |-> NoSnapshot]
    /\ callbacks = <<>>
    /\ nStreams = 0
    /\ serve = [s \in Streams |-> "none"]
    /\ eof = [s \in Streams |-> FALSE]
    /\ emitted = 0
    /\ updates = 0
    /\ held = [s \in Streams |-> NoLine]
    /\ handled = <<>>
    /\ loops = <<>>
    /\ bindPosts = <<>>
    /\ ctrlPosts = <<>>
    /\ call = [c \in AllCallers |-> IdleCall]
    /\ waitPc = "none"
    /\ timerFired = FALSE
    /\ boundAtExpiry = FALSE
    /\ endLogged = FALSE
    /\ panicked = FALSE
    /\ unknown = {}

\* no line has been handed to the parsers
NoParse == [ok |-> FALSE, MessageType |-> "", Data |-> "none"]
ParsersIdle == parseLine = <<>> /\ sessionMsg = NoParse /\ controlMsg = NoParse

\* no body is given line by line
LinesIdle == input = <<>> /\ scan = 0 /\ yielded = <<>>

\* the tasks that use the registry lock: the reader (serve, whose callback
\* calls Subscribe) and two other callers of Subscribe
Tasks == {"reader", "caller", "other"}
Variants == {"client.go", "part_006"}

\* the registry lock is free and nobody is about to use it
LockIdle ==
    /\ rwReaders = [t \in Tasks |-> 0] /\ rwWriter = "none" /\ rwWaiting = {}
    /\ updPc = "idle" /\ subPc = [t \in Tasks |-> "idle"]
LockUnused == variant = "client.go" /\ LockIdle

\* the items the U lines of the per-item model are about
ItemNumbers == {1, 2}
Decoders == {"values.go", "part_010"}

\* no snapshot of any item is stored and no callback has been called
ItemsIdle ==
    /\ heap = <<>> /\ given = <<>> /\ updateErr = ""
    /\ last = [x \in AllSubIDs \X ItemNumbers |-> 0]
ItemsUnused == decoder = "values.go" /\ ItemsIdle

\* readAllMessages starts at its first scanner.Scan()
ReaderIdle == readerPc = "scanning"

Init ==
    /\ InitSession
    /\ uLast = <<>> /\ uValues = <<>> /\ uNext = NoCall
    /\ replyLine = <<>> /\ replyMsg = NoReply
    /\ ParsersIdle
    /\ LinesIdle
    /\ LockUnused
    /\ ItemsUnused
    /\ ReaderIdle

\* ------------------------------------------------------------ predicates
\* the test of SessionEstablished: a string is stored and it is not empty
SessionEstablished == sessionID # NoSession /\ sessionID # ""

\* a Subscribe without its gate (variant: the c.sessionID.Load() == nil test
\* left out)
SubscribeGateOpen == TRUE

\* the gate of Subscribe: something has been stored
SubscribeGate == sessionID # NoSession

\* handleLoop tasks that have not finished
PendingLoops == {i \in DOMAIN loops : loops[i].st \in {"sleeping", "ready"}}

\* the process is running: an unrecovered panic in any goroutine ends it
Alive == ~panicked

\* ------------------------------------------------------------ the registry
\* subscriptions.get: the second result
Registered(k) == k \in DOMAIN subscriptions

\* subscriptions.add: s.items[item] = sub, a fresh subscription without snapshots
RegistryAdd(k) ==
    [j \in DOMAIN subscriptions \cup {k} |->
        IF j = k THEN NoSnapshot ELSE subscriptions[j]]

\* ------------------------------------------------------- opening a stream
\* go c.serve(ctx, r) on the body of a successful create_session or
\* bind_session: serve counts itself in connections
StartServe ==
    /\ nStreams' = nStreams + 1
    /\ serve' = [serve EXCEPT ![nStreams + 1] = "running"]
    /\ connections' = connections + 1
    /\ UNCHANGED eof

\* Connect: keeps the cancel function, POSTs create_session and starts the
\* reader; ok is the outcome of the POST
Connect(ok) ==
    /\ Alive /\ ~cancelFunc /\ nStreams = 0 /\ waitPc = "none"
    /\ cancelFunc' = TRUE
    /\ IF ok THEN StartServe ELSE UNCHANGED streamVars
    /\ UNCHANGED <<pureVars, disconnects, sessionID, ctxDone, endLogged, registryVars, idVars,
                   serverVars, loops, postVars, call, waitVars, panicked>>

\* ConnectWithSession: Connect, then SessionEstablished under a context that
\* expires after the timeout
ConnectWithSession(ok) ==
    /\ Alive /\ ~cancelFunc /\ nStreams = 0 /\ waitPc = "none"
    /\ cancelFunc' = TRUE
    /\ IF ok THEN StartServe ELSE UNCHANGED streamVars
    /\ waitPc' = IF ok THEN "check" ELSE "connerr"
    /\ UNCHANGED <<pureVars, disconnects, sessionID, ctxDone, endLogged, registryVars, idVars,
                   serverVars, loops, postVars, call, timerFired, boundAtExpiry,
                   panicked>>

\* variant of Disconnect without the nil test: calling a nil cancel function
\* panics
DisconnectNilPanics ==
    /\ Alive /\ disconnects < MaxDisconnects
    /\ disconnects' = disconnects + 1
    /\ ctxDone' = (ctxDone \/ cancelFunc)
    /\ panicked' = ~cancelFunc
    /\ UNCHANGED <<pureVars, sessionID, cancelFunc, endLogged, registryVars, idVars,
                   streamVars, serverVars, loops, postVars, call, waitVars>>

\* Disconnect: calls the cancel function if Connect has set one
Disconnect ==
    /\ Alive /\ disconnects < MaxDisconnects
    /\ disconnects' = disconnects + 1
    /\ ctxDone' = (ctxDone \/ cancelFunc)
    /\ UNCHANGED <<pureVars, sessionID, cancelFunc, endLogged, registryVars, idVars,
                   streamVars, serverVars, loops, postVars, call, waitVars,
                   panicked>>

\* ------------------------------------------------------------ the bind wait
\* the timeout of the waiting context expires
TimeoutFires ==
    /\ Alive /\ waitPc \in {"check", "select"} /\ ~timerFired
    /\ timerFired' = TRUE
    /\ boundAtExpiry' = SessionEstablished
    /\ UNCHANGED <<pureVars, sessionVars, registryVars, idVars, streamVars, serverVars,
                   loops, postVars, call, waitPc, panicked>>

\* the head of the loop: return nil once a non-empty session id is stored
WaitCheck ==
    /\ Alive /\ waitPc = "check"
    /\ waitPc' = IF SessionEstablished THEN "ok" ELSE "select"
    /\ UNCHANGED <<pureVars, sessionVars, registryVars, idVars, streamVars, serverVars,
                   loops, postVars, call, timerFired, boundAtExpiry, panicked>>

\* select, case <-time.After(100 * time.Millisecond): look again
WaitPoll ==
    /\ Alive /\ waitPc = "select"
    /\ waitPc' = "check"
    /\ UNCHANGED <<pureVars, sessionVars, registryVars, idVars, streamVars, serverVars,
                   loops, postVars, call, timerFired, boundAtExpiry, panicked>>

\* variant of the ctx.Done() case that goes round the loop instead of
\* returning ctx.Err()
WaitTimeoutIgnored ==
    /\ Alive /\ waitPc = "select" /\ timerFired
    /\ waitPc' = "check"
    /\ UNCHANGED <<pureVars, sessionVars, registryVars, idVars, streamVars, serverVars,
                   loops, postVars, call, timerFired, boundAtExpiry, panicked>>

\* select, case <-ctx.Done(): return ctx.Err()
WaitTimeout ==
    /\ Alive /\ waitPc = "select" /\ timerFired
    /\ waitPc' = "timeout"
    /\ UNCHANGED <<pureVars, sessionVars, registryVars, idVars, streamVars, serverVars,
                   loops, postVars, call, timerFired, boundAtExpiry, panicked>>

\* ------------------------------------------------------------------ Values
\* a Values slot is a *Value: nil, or a pointer to a string
Null == [set |-> FALSE, s |-> ""]
valuePtr(x) == [set |-> TRUE, s |-> x]

\* the tokens a token list of the model is made of: unchanged, null, empty,
\* skips (with a zero, a negative and a non-numeric count), plain values, a
\* percent-encoded value and a value whose percent-decoding fails
Tokens ==
    {"", "#", "$", "^0", "^1", "^2", "^-1", "^x", "a", "b", "%61", "%zz"}

\* value[0] == '^'
IsSkip(value) == value \in {"^0", "^1", "^2", "^-1", "^x"}

\* variant of the step that counts one position too many
AtoiPlusOne(value) ==
    CASE value = "^0" -> 1
      [] value = "^1" -> 2
      [] value = "^2" -> 3
      [] value = "^-1" -> 0
      [] OTHER -> 0

\* strconv.Atoi(value[1:]) of a skip token: the error, and the number
AtoiFails(value) == value = "^x"
Atoi(value) ==
    CASE value = "^0" -> 0
      [] value = "^1" -> 1
      [] value = "^2" -> 2
      [] value = "^-1" -> 0 - 1
      [] OTHER -> 0

\* variant of the decoding that keeps every token as it is written
PathUnescapeRaw(value) == value

\* url.PathUnescape on the tokens of the model; on an error the raw token
\* is kept
PathUnescape(value) ==
    CASE value = "%61" -> "a"
      [] OTHER -> value

\* the three ways Update ends: a snapshot and a nil error, an empty Values
\* and an error, or an index out of range (the goroutine panics)
UpdateOK(next) == [kind |-> "ok", val |-> next, err |-> ""]
UpdateError(e) == [kind |-> "error", val |-> <<>>, err |-> e]
UpdatePanic == [kind |-> "panic", val |-> <<>>, err |-> "index out of range"]

\* Values.String: one text per slot (the code joins them with commas)
String(v) == [i \in DOMAIN v |-> IF v[i].set THEN v[i].s ELSE "<nil>"]

\* variant of the loop of Values.Update without the final test of the cursor
RECURSIVE UpdateLoopNoLengthTest(_, _, _, _)
UpdateLoopNoLengthTest(n, next, values, idx) ==
    IF values = <<>>
        THEN UpdateOK(next)
        ELSE LET value == Head(values)
                 rest == Tail(values)
                 store(x) ==
                     IF idx < 0
                         THEN UpdatePanic
                         ELSE UpdateLoopNoLengthTest(n,
                                  [next EXCEPT ![idx + 1] = x], rest, idx + 1)
             IN  IF idx > n - 1
                     THEN UpdateError("invalid value")
                     ELSE CASE value = "" ->
                                   UpdateLoopNoLengthTest(n, next, rest, idx + 1)
                            [] value = "#" -> store(Null)
                            [] value = "$" -> store(valuePtr(""))
                            [] IsSkip(value) ->
                                   IF AtoiFails(value)
                                       THEN UpdateError("invalid step value")
                                       ELSE UpdateLoopNoLengthTest(n, next, rest,
                                                idx + (Atoi(value) - 1) + 1)
                            [] OTHER -> store(valuePtr(PathUnescape(value)))

\* Values.Update, the loop over the tokens: n is len(v), next the copy being
\* written, idx the cursor (0-based as in the code; slot idx is next[idx + 1])
RECURSIVE UpdateLoop(_, _, _, _)
UpdateLoop(n, next, values, idx) ==
    IF values = <<>>
        THEN IF idx # n
                 THEN UpdateError("not enough values in update")
                 ELSE UpdateOK(next)
        ELSE LET value == Head(values)
                 rest == Tail(values)
                 store(x) ==
                     IF idx < 0
                         THEN UpdatePanic
                         ELSE UpdateLoop(n, [next EXCEPT ![idx + 1] = x],
                                         rest, idx + 1)
             IN  IF idx > n - 1
                     THEN UpdateError("invalid value")
                     ELSE CASE value = "" -> UpdateLoop(n, next, rest, idx + 1)
                            [] value = "#" -> store(Null)
                            [] value = "$" -> store(valuePtr(""))
                            [] IsSkip(value) ->
                                   IF AtoiFails(value)
                                       THEN UpdateError("invalid step value")
                                       ELSE UpdateLoop(n, next, rest,
                                                idx + (Atoi(value) - 1) + 1)
                            [] OTHER -> store(valuePtr(PathUnescape(value)))

\* variant of Values.Update that sizes the copy by the token list, whatever
\* the receiver holds
UpdateSizedByTokens(v, values) ==
    UpdateLoop(Len(values),
               [i \in 1..Len(values) |-> IF i <= Len(v) THEN v[i] ELSE Null],
               values, 0)

\* Values.Update: an empty receiver takes the length of the token list
Update(v, values) ==
    LET base == IF Len(v) = 0 THEN [i \in 1..Len(values) |-> Null] ELSE v
    IN  UpdateLoop(Len(base), base, values, 0)

\* --------------------------------------------------------------- the reader
\* variant of subscription.update that applies the tokens to an empty
\* snapshot instead of the last one
updateFromEmpty(k, item, values) ==
    LET r == Update(NoSnapshot, values)
    IN  /\ subscriptions' =
               IF r.kind = "ok" THEN [subscriptions EXCEPT ![k] = r.val]
                                ELSE subscriptions
        /\ callbacks' =
               IF r.kind = "ok" THEN Append(callbacks, <<k, item, r.val>>)
                                ELSE callbacks
        /\ panicked' = (r.kind = "panic")
        /\ UNCHANGED unknown

\* subscription.update on a registered subscription: when Values.Update
\* returns no error the next snapshot is stored and handed to the callback;
\* on an error nothing is stored or called; an index out of range panics
update(k, item, values) ==
    LET r == Update(subscriptions[k], values)
    IN  /\ subscriptions' =
               IF r.kind = "ok" THEN [subscriptions EXCEPT ![k] = r.val]
                                ELSE subscriptions
        /\ callbacks' =
               IF r.kind = "ok" THEN Append(callbacks, <<k, item, r.val>>)
                                ELSE callbacks
        /\ panicked' = (r.kind = "panic")
        /\ UNCHANGED unknown

\* handleUpdate: looks the subscription up, logs a warning when there is
\* none, and calls update on what the lookup returned; on a nil subscription
\* the first statement of update reads s.last and the process panics
handleUpdate(k, item, values) ==
    IF Registered(k)
        THEN update(k, item, values)
        ELSE /\ unknown' = unknown \cup {k}
             /\ panicked' = TRUE
             /\ UNCHANGED <<subscriptions, callbacks>>

\* handleMessage, case LOOPData: go c.handleLoop(ctx, data); the new task
\* sleeps when the delay is positive
startHandleLoop(d) ==
    loops' = Append(loops, [st |-> IF d > 0 THEN "sleeping" ELSE "ready"])

\* variant of handleMessage whose LOOP case forgets the session id before
\* it starts the rebinder
handleMessageClearsOnLoop(m) ==
    CASE m.kind = "CONOK" ->
            /\ sessionID' = m.SessionID
            /\ UNCHANGED <<endLogged, registryVars, loops, panicked>>
      [] m.kind = "U" ->
            /\ handleUpdate(m.SubscriptionID, m.Item, m.Values)
            /\ UNCHANGED <<sessionID, endLogged, loops>>
      [] m.kind = "LOOP" ->
            /\ startHandleLoop(m.ExpectedDelay)
            /\ sessionID' = ""
            /\ UNCHANGED <<endLogged, registryVars, panicked>>
      [] m.kind = "END" ->
            /\ endLogged' = TRUE
            /\ UNCHANGED <<sessionID, registryVars, loops, panicked>>

\* variant of handleMessage whose END case forgets the session id
handleMessageEndForgets(m) ==
    CASE m.kind = "CONOK" ->
            /\ sessionID' = m.SessionID
            /\ UNCHANGED <<endLogged, registryVars, loops, panicked>>
      [] m.kind = "U" ->
            /\ handleUpdate(m.SubscriptionID, m.Item, m.Values)
            /\ UNCHANGED <<sessionID, endLogged, loops>>
      [] m.kind = "LOOP" ->
            /\ startHandleLoop(m.ExpectedDelay)
            /\ UNCHANGED <<sessionID, endLogged, registryVars, panicked>>
      [] m.kind = "END" ->
            /\ endLogged' = TRUE
            /\ sessionID' = NoSession
            /\ UNCHANGED <<registryVars, loops, panicked>>

\* handleMessage: the switch on the kind of the line
handleMessage(m) ==
    CASE m.kind = "CONOK" ->
            /\ sessionID' = m.SessionID
            /\ UNCHANGED <<endLogged, registryVars, loops, panicked>>
      [] m.kind = "U" ->
            /\ handleUpdate(m.SubscriptionID, m.Item, m.Values)
            /\ UNCHANGED <<sessionID, endLogged, loops>>
      [] m.kind = "LOOP" ->
            /\ startHandleLoop(m.ExpectedDelay)
            /\ UNCHANGED <<sessionID, endLogged, registryVars, panicked>>
      [] m.kind = "END" ->
            /\ endLogged' = TRUE
            /\ UNCHANGED <<sessionID, registryVars, loops, panicked>>

\* the server can write line m on body s: the body is open, readAllMessages
\* is not blocked on an earlier line, and the run has lines left
CanWrite(s, m) ==
    /\ Alive /\ serve[s] = "running" /\ ~eof[s]
    /\ held[s] = NoLine
    /\ IF m.kind = "U" THEN updates < MaxUpdates ELSE emitted < MaxEmit
    /\ m.kind = "LOOP" => nStreams + Cardinality(PendingLoops) < MaxStreams

\* the count of the lines written, after line m
Written(m) ==
    /\ emitted' = IF m.kind = "U" THEN emitted ELSE emitted + 1
    /\ updates' = IF m.kind = "U" THEN updates + 1 ELSE updates

\* serve, case msg := <-ch: the line is handled; n is the number of the line
\* among the U lines written, noted when its callback has run
Handle(m, n) ==
    /\ handleMessage(m)
    /\ handled' =
           IF m.kind = "U" /\ callbacks' # callbacks
               THEN Append(handled, [n |-> n, k |-> m.SubscriptionID])
               ELSE handled

\* the server writes line m on body s; readAllMessages parses it and serve
\* takes it from the channel and handles it
Deliver(s, m) ==
    /\ CanWrite(s, m)
    /\ Written(m)
    /\ Handle(m, updates + 1)
    /\ UNCHANGED <<pureVars, disconnects, cancelFunc, ctxDone, idVars, streamVars, postVars, call,
                   waitVars, held>>

\* the server writes line m on body s; readAllMessages parses it and blocks
\* in ch <- msg until serve takes it
Write(s, m) ==
    /\ CanWrite(s, m)
    /\ Written(m)
    /\ held' = [held EXCEPT ![s] = [line |-> m, n |-> updates + 1]]
    /\ UNCHANGED <<pureVars, sessionVars, registryVars, idVars, streamVars,
                   handled, loops, postVars, call, waitVars, panicked>>

\* serve of body s takes the line readAllMessages holds and handles it
Take(s) ==
    /\ Alive /\ serve[s] = "running" /\ held[s] # NoLine
    /\ held' = [held EXCEPT ![s] = NoLine]
    /\ Handle(held[s].line, held[s].n)
    /\ UNCHANGED <<pureVars, disconnects, cancelFunc, ctxDone, idVars, streamVars, emitted,
                   updates, postVars, call, waitVars>>

\* the server ends body s
ServerClose(s) ==
    /\ Alive /\ serve[s] # "none" /\ ~eof[s]
    /\ eof' = [eof EXCEPT ![s] = TRUE]
    /\ UNCHANGED <<pureVars, sessionVars, registryVars, idVars, nStreams, serve,
                   connections, serverVars, loops, postVars, call, waitVars,
                   panicked>>

\* variant of the return of serve whose deferred function leaves the count
\* of the connections as it is
ServeReturnUncounted(s) ==
    /\ serve' = [serve EXCEPT ![s] = "returned"]
    /\ UNCHANGED <<pureVars, sessionVars, registryVars, idVars, nStreams, eof,
                   connections, serverVars, loops, postVars, call, waitVars,
                   panicked>>

\* serve returns: the deferred function uncounts the connection and closes
\* the body
ServeReturn(s) ==
    /\ serve' = [serve EXCEPT ![s] = "returned"]
    /\ connections' = connections - 1
    /\ UNCHANGED <<pureVars, sessionVars, registryVars, idVars, nStreams, eof,
                   serverVars, loops, postVars, call, waitVars, panicked>>

\* serve, case <-done: readAllMessages has reached the end of the body
ServeDone(s) ==
    /\ Alive /\ serve[s] = "running" /\ eof[s] /\ held[s] = NoLine
    /\ ServeReturn(s)

\* variant of serve without the ctx.Done() case
ServeCancelledIgnored(s) ==
    /\ Alive /\ serve[s] = "running" /\ ctxDone
    /\ UNCHANGED vars

\* serve, case <-ctx.Done()
ServeCancelled(s) ==
    /\ Alive /\ serve[s] = "running" /\ ctxDone
    /\ ServeReturn(s)

\* ------------------------------------------------- the snapshots per item
\* Values.Update of part_010, the loop: the tokens are written into v itself;
\* arr is the backing array of v when the call returns
RECURSIVE UpdateInPlaceLoop(_, _, _)
UpdateInPlaceLoop(v, values, idx) ==
    IF values = <<>>
        THEN IF idx # Len(v)
                 THEN [kind |-> "error", val |-> <<>>,
                       err |-> "not enough values in update", arr |-> v]
                 ELSE [kind |-> "ok", val |-> v, err |-> "", arr |-> v]
        ELSE LET value == Head(values)
                 rest == Tail(values)
                 store(x) ==
                     IF idx < 0
                         THEN [kind |-> "panic", val |-> <<>>,
                               err |-> "index out of range", arr |-> v]
                         ELSE UpdateInPlaceLoop([v EXCEPT ![idx + 1] = x],
                                                rest, idx + 1)
             IN  IF idx > Len(v) - 1
                     THEN [kind |-> "error", val |-> <<>>,
                           err |-> "invalid value", arr |-> v]
                     ELSE CASE value = "" -> UpdateInPlaceLoop(v, rest, idx + 1)
                            [] value = "#" -> store(Null)
                            [] value = "$" -> store(valuePtr(""))
                            [] IsSkip(value) ->
                                   IF AtoiFails(value)
                                       THEN [kind |-> "error", val |-> <<>>,
                                             err |-> "invalid step value",
                                             arr |-> v]
                                       ELSE UpdateInPlaceLoop(v, rest,
                                                idx + (Atoi(value) - 1) + 1)
                            [] OTHER -> store(valuePtr(PathUnescape(value)))

\* Values.Update of part_010: an empty receiver is replaced by a new array
\* of the length of the token list
UpdateInPlace(v, values) ==
    UpdateInPlaceLoop(IF Len(v) = 0 THEN [i \in 1..Len(values) |-> Null] ELSE v,
                      values, 0)

\* s.last[item] of subscription k: the Values stored (nil before the first
\* update)
Stored(k, item) ==
    IF last[<<k, item>>] = 0 THEN NoSnapshot ELSE heap[last[<<k, item>>]]

\* variant of subscription.update that stores the result for every item of
\* the subscription
updateEveryItem(k, item, values) ==
    LET r == Update(Stored(k, item), values)
    IN  /\ updateErr' = r.err
        /\ panicked' = (r.kind = "panic")
        /\ IF r.kind = "ok"
               THEN /\ heap' = Append(heap, r.val)
                    /\ last' = [x \in DOMAIN last |->
                                   IF x[1] = k THEN Len(heap) + 1 ELSE last[x]]
                    /\ given' = Append(given, [k |-> k, item |-> item,
                                               ref |-> Len(heap) + 1,
                                               val |-> r.val])
               ELSE UNCHANGED <<heap, last, given>>

\* subscription.update with the copying Values.Update of values.go: the
\* result is a new array; it is stored and handed to the callback when the
\* error is nil
updateByCopy(k, item, values) ==
    LET r == Update(Stored(k, item), values)
    IN  /\ updateErr' = r.err
        /\ panicked' = (r.kind = "panic")
        /\ IF r.kind = "ok"
               THEN /\ heap' = Append(heap, r.val)
                    /\ last' = [last EXCEPT ![<<k, item>>] = Len(heap) + 1]
                    /\ given' = Append(given, [k |-> k, item |-> item,
                                               ref |-> Len(heap) + 1,
                                               val |-> r.val])
               ELSE UNCHANGED <<heap, last, given>>

\* subscription.update with the Values.Update of part_010: the tokens are
\* written into the array of the stored Values (a new array on the first
\* update), which is what the call returns, stores and hands to the callback
updateInPlace(k, item, values) ==
    LET v == Stored(k, item)
        r == UpdateInPlace(v, values)
        ref == IF Len(v) = 0 THEN Len(heap) + 1 ELSE last[<<k, item>>]
    IN  /\ updateErr' = r.err
        /\ panicked' = (r.kind = "panic")
        /\ heap' = IF Len(v) = 0 THEN Append(heap, r.arr)
                                 ELSE [heap EXCEPT ![ref] = r.arr]
        /\ IF r.kind = "ok"
               THEN /\ last' = [last EXCEPT ![<<k, item>>] = ref]
                    /\ given' = Append(given, [k |-> k, item |-> item,
                                               ref |-> ref, val |-> r.val])
               ELSE UNCHANGED <<last, given>>

\* the server writes the line U,k,item,body on the body of Connect and serve
\* handles it: handleUpdate looks the subscription up (and panics in update
\* when there is none), update applies the tokens to the snapshot of the item
DispatchUpdate(k, item, values) ==
    /\ Alive /\ serve[1] = "running" /\ ~eof[1] /\ updates < MaxUpdates
    /\ updates' = updates + 1
    /\ IF Registered(k)
           THEN /\ IF decoder = "values.go"
                       THEN updateByCopy(k, item, values)
                       ELSE updateInPlace(k, item, values)
                /\ UNCHANGED unknown
           ELSE /\ unknown' = unknown \cup {k}
                /\ panicked' = TRUE
                /\ UNCHANGED <<heap, last, given, updateErr>>
    /\ UNCHANGED <<uLast, uValues, uNext, replyLine, replyMsg, parseVars,
                   lineVars, lockVars, decoder, readerPc, sessionVars,
                   subscriptions,
                   callbacks, idVars, streamVars, emitted, held, handled,
                   loops, postVars, call, waitVars>>

\* ------------------------------------------------------------- the rebinder
\* handleLoop, case <-time.After(delay): the sleep is over
LoopWake(i) ==
    /\ Alive /\ i \in DOMAIN loops /\ loops[i].st = "sleeping"
    /\ loops' = [loops EXCEPT ![i].st = "ready"]
    /\ UNCHANGED <<pureVars, sessionVars, registryVars, idVars, streamVars, serverVars,
                   postVars, call, waitVars, panicked>>

\* handleLoop, case <-ctx.Done() during the sleep: return
LoopCancelled(i) ==
    /\ Alive /\ i \in DOMAIN loops /\ loops[i].st = "sleeping" /\ ctxDone
    /\ loops' = [loops EXCEPT ![i].st = "cancelled"]
    /\ UNCHANGED <<pureVars, sessionVars, registryVars, idVars, streamVars, serverVars,
                   postVars, call, waitVars, panicked>>

\* variant of rebind whose form leaves LS_session empty
rebindWithoutSession(sid) == Append(bindPosts, "")

\* rebind: the form of the bind_session POST, LS_session = the id passed in
rebind(sid) == Append(bindPosts, sid)

\* variant of handleLoop after the sleep whose request does not heed the
\* cancellation of the context
RebindHeedless(i, ok) ==
    /\ Alive /\ i \in DOMAIN loops /\ loops[i].st = "ready"
    /\ IF sessionID = NoSession
          THEN /\ panicked' = TRUE
               /\ UNCHANGED <<loops, bindPosts, streamVars>>
          ELSE /\ bindPosts' = rebind(sessionID)
               /\ loops' = [loops EXCEPT ![i].st = IF ok THEN "done" ELSE "failed"]
               /\ IF ok THEN StartServe ELSE UNCHANGED streamVars
               /\ UNCHANGED panicked
    /\ UNCHANGED <<pureVars, sessionVars, registryVars, idVars, serverVars, ctrlPosts,
                   call, waitVars>>

\* handleLoop after the sleep: c.rebind(ctx, c.sessionID.Load().(string)) and,
\* when the POST succeeds, go c.serve on the new body.  The type assertion
\* panics when nothing is stored; a request under a cancelled context fails
\* before it is sent; ok is the outcome of the POST
Rebind(i, ok) ==
    /\ Alive /\ i \in DOMAIN loops /\ loops[i].st = "ready"
    /\ IF sessionID = NoSession
          THEN /\ panicked' = TRUE
               /\ UNCHANGED <<loops, bindPosts, streamVars>>
          ELSE IF ctxDone
          THEN /\ loops' = [loops EXCEPT ![i].st = "failed"]
               /\ UNCHANGED <<panicked, bindPosts, streamVars>>
          ELSE /\ bindPosts' = rebind(sessionID)
               /\ loops' = [loops EXCEPT ![i].st = IF ok THEN "done" ELSE "failed"]
               /\ IF ok THEN StartServe ELSE UNCHANGED streamVars
               /\ UNCHANGED panicked
    /\ UNCHANGED <<pureVars, sessionVars, registryVars, idVars, serverVars, ctrlPosts,
                   call, waitVars>>

\* ------------------------------------------------------- the control reply
\* the fields a control reply of the model is made of (the line split on ",")
Fields == {"7", "14", "014", "x", "bad group", ""}
\* the first field of a control reply: the two control kinds, and a kind
\* that only the session parsers know
Kinds == {"REQOK", "REQERR", "SUBOK"}

\* strconv.Atoi on a field: the error, and the number
AtoiFieldFails(f) == f \notin {"1", "7", "14", "014"}
AtoiField(f) ==
    CASE f = "1" -> 1
      [] f = "7" -> 7
      [] f = "14" -> 14
      [] f = "014" -> 14
      [] OTHER -> 0

\* the verb %d of fmt.Errorf on the numbers of the model
Itoa(n) ==
    CASE n = 1 -> "1"
      [] n = 7 -> "7"
      [] n = 14 -> "14"
      [] OTHER -> "0"

\* parseREQOK: one argument, a number
parseREQOK(parts) ==
    IF Len(parts) # 1 \/ AtoiFieldFails(parts[1])
        THEN [ok |-> FALSE, kind |-> "", RequestID |-> 0, ErrorCode |-> 0,
              ErrorMessage |-> ""]
        ELSE [ok |-> TRUE, kind |-> "REQOK", RequestID |-> AtoiField(parts[1]),
              ErrorCode |-> 0, ErrorMessage |-> ""]

\* variant of parseREQERR that takes the error code from the request id
parseREQERRSwapped(parts) ==
    IF Len(parts) # 3 \/ AtoiFieldFails(parts[1]) \/ AtoiFieldFails(parts[2])
        THEN [ok |-> FALSE, kind |-> "", RequestID |-> 0, ErrorCode |-> 0,
              ErrorMessage |-> ""]
        ELSE [ok |-> TRUE, kind |-> "REQERR",
              RequestID |-> AtoiField(parts[1]),
              ErrorCode |-> AtoiField(parts[1]), ErrorMessage |-> parts[3]]

\* parseREQERR: three arguments, the first two numbers
parseREQERR(parts) ==
    IF Len(parts) # 3 \/ AtoiFieldFails(parts[1]) \/ AtoiFieldFails(parts[2])
        THEN [ok |-> FALSE, kind |-> "", RequestID |-> 0, ErrorCode |-> 0,
              ErrorMessage |-> ""]
        ELSE [ok |-> TRUE, kind |-> "REQERR",
              RequestID |-> AtoiField(parts[1]),
              ErrorCode |-> AtoiField(parts[2]), ErrorMessage |-> parts[3]]

\* ParseControlMessage on the fields of a line: the parser of the kind, and
\* an unsupported message for a kind without one
ParseControlMessage(line) ==
    CASE Head(line) = "REQOK" -> parseREQOK(Tail(line))
      [] Head(line) = "REQERR" -> parseREQERR(Tail(line))
      [] OTHER -> [ok |-> TRUE, kind |-> "Unsupported", RequestID |-> 0,
                   ErrorCode |-> 0, ErrorMessage |-> ""]

\* Subscribe on a reply line: the class of the reply and the text of the
\* error returned, as the pieces fmt.Errorf puts together (<<>> is nil)
SubscribeOutcome(line) ==
    LET msg == ParseControlMessage(line)
    IN  CASE ~msg.ok ->
                 [class |-> "MALFORMED", err |-> <<"unexpected response: parse">>]
          [] msg.kind = "REQOK" -> [class |-> "REQOK", err |-> <<>>]
          [] msg.kind = "REQERR" ->
                 [class |-> "REQERR",
                  err |-> <<Itoa(msg.ErrorCode), ": ", msg.ErrorMessage>>]
          [] OTHER ->
                 [class |-> "OTHER",
                  err |-> <<"subscription failed: unexpected response type ",
                            Head(line)>>]

\* ------------------------------------------------------ the session parsers
\* the arguments of the lines handed to the session parsers: numbers (one
\* with a leading zero), a float, the two words CONS and CONF know, and a
\* text that is no number
Args == {"7", "014", "x", "1.5", "unlimited", "filtered", "unfiltered"}

\* the kinds in sessionMessageParsers, and a first field no parser is kept for
SessionKinds ==
    {"CONOK", "SERVNAME", "CLIENTIP", "NOOP", "CONS", "SYNC", "PROBE", "LOOP",
     "END", "U", "SUBOK", "CONF", "PROG"}
OtherKind == "FOO"

\* what a parser returns: data and a nil error, or nil and an error
Parsed(data) == [ok |-> TRUE, data |-> data]
ParseFailed == [ok |-> FALSE, data |-> "error"]

\* parseFloatWithUnlimited: the error, and the number (in its shortest form;
\* +Inf for unlimited)
ParseFloatFails(value) == value \notin {"7", "14", "014", "1.5", "unlimited"}
parseFloatWithUnlimited(value) ==
    CASE value = "unlimited" -> "+Inf"
      [] value = "014" -> "14"
      [] OTHER -> value

\* strings.Split(parts[2], "|") on the bodies of the model
SplitBody(body) ==
    CASE body = "" -> <<"">>
      [] OTHER -> <<body>>

parseCONOK(parts) ==
    IF Len(parts) # 4 \/ AtoiFieldFails(parts[2]) \/ AtoiFieldFails(parts[3])
        THEN ParseFailed
        ELSE Parsed([SessionID |-> parts[1], ControlLink |-> parts[4],
                     RequestLimit |-> AtoiField(parts[2]),
                     KeepAliveTime |-> AtoiField(parts[3])])

parseSERVNAME(parts) ==
    IF Len(parts) # 1 THEN ParseFailed
                      ELSE Parsed([ServerName |-> parts[1]])

parseCLIENTIP(parts) ==
    IF Len(parts) # 1 THEN ParseFailed
                      ELSE Parsed([ClientIP |-> parts[1]])

parseNOOP(parts) == Parsed([Preamble |-> parts])

parseCONS(parts) ==
    IF Len(parts) # 1 \/ ParseFloatFails(parts[1])
        THEN ParseFailed
        ELSE Parsed([Bandwidth |-> parseFloatWithUnlimited(parts[1])])

parseSYNC(parts) ==
    IF Len(parts) # 1 \/ AtoiFieldFails(parts[1])
        THEN ParseFailed
        ELSE Parsed([SecondsSinceInitialHeader |-> AtoiField(parts[1])])

\* parsePROBE does not look at its arguments
parsePROBE(parts) == Parsed("nil")

parseLOOP(parts) ==
    IF Len(parts) # 1 \/ AtoiFieldFails(parts[1])
        THEN ParseFailed
        ELSE Parsed([ExpectedDelay |-> AtoiField(parts[1])])

parseEND(parts) ==
    IF Len(parts) # 2 \/ AtoiFieldFails(parts[1])
        THEN ParseFailed
        ELSE Parsed([Message |-> parts[2], Code |-> AtoiField(parts[1])])

parseU(parts) ==
    IF Len(parts) # 3 \/ AtoiFieldFails(parts[1]) \/ AtoiFieldFails(parts[2])
        THEN ParseFailed
        ELSE Parsed([Values |-> SplitBody(parts[3]),
                     SubscriptionID |-> AtoiField(parts[1]),
                     Item |-> AtoiField(parts[2])])

parseSUBOK(parts) ==
    IF \/ Len(parts) # 3 \/ AtoiFieldFails(parts[1])
       \/ AtoiFieldFails(parts[2]) \/ AtoiFieldFails(parts[3])
        THEN ParseFailed
        ELSE Parsed([SubscriptionID |-> AtoiField(parts[1]),
                     Items |-> AtoiField(parts[2]),
                     Fields |-> AtoiField(parts[3])])

parseCONF(parts) ==
    IF \/ Len(parts) # 3 \/ AtoiFieldFails(parts[1])
       \/ ParseFloatFails(parts[2])
       \/ parts[3] \notin {"filtered", "unfiltered"}
        THEN ParseFailed
        ELSE Parsed([SubscriptionID |-> AtoiField(parts[1]),
                     MaxFrequency |-> parseFloatWithUnlimited(parts[2]),
                     Filtered |-> (parts[3] = "filtered")])

parsePROG(parts) ==
    IF Len(parts) # 1 \/ AtoiFieldFails(parts[1])
        THEN ParseFailed
        ELSE Parsed([Progressive |-> AtoiField(parts[1])])

\* sessionMessageParsers[kind](parts)
sessionMessageParsers(kind, parts) ==
    CASE kind = "CONOK" -> parseCONOK(parts)
      [] kind = "SERVNAME" -> parseSERVNAME(parts)
      [] kind = "CLIENTIP" -> parseCLIENTIP(parts)
      [] kind = "NOOP" -> parseNOOP(parts)
      [] kind = "CONS" -> parseCONS(parts)
      [] kind = "SYNC" -> parseSYNC(parts)
      [] kind = "PROBE" -> parsePROBE(parts)
      [] kind = "LOOP" -> parseLOOP(parts)
      [] kind = "END" -> parseEND(parts)
      [] kind = "U" -> parseU(parts)
      [] kind = "SUBOK" -> parseSUBOK(parts)
      [] kind = "CONF" -> parseCONF(parts)
      [] kind = "PROG" -> parsePROG(parts)

\* parseMessage on the fields of a line: the parser of the first field when
\* there is one, an UnsupportedData with the other fields when there is none;
\* a Message, or the zero Message and an error
ParseError == [ok |-> FALSE, MessageType |-> "", Data |-> "nil"]
Message(kind, data) == [ok |-> TRUE, MessageType |-> kind, Data |-> data]

\* variant of parseMessage that has an error for a first field without a
\* parser
ParseSessionMessageStrict(line) ==
    IF Head(line) \in SessionKinds
        THEN LET r == sessionMessageParsers(Head(line), Tail(line))
             IN  IF r.ok THEN Message(Head(line), r.data) ELSE ParseError
        ELSE ParseError

ParseSessionMessage(line) ==
    IF Head(line) \in SessionKinds
        THEN LET r == sessionMessageParsers(Head(line), Tail(line))
             IN  IF r.ok THEN Message(Head(line), r.data) ELSE ParseError
        ELSE Message(Head(line), [Values |-> Tail(line)])

\* ------------------------------------------------- a body read line by line
\* handleMessage on a parsed message: the type switch on msg.Data; the
\* informational kinds, SYNC (which only notes a time difference) and an
\* unsupported message leave the session as it is
handleParsed(msg) ==
    CASE msg.MessageType = "CONOK" -> handleMessage(CONOK(msg.Data.SessionID))
      [] msg.MessageType = "LOOP" -> handleMessage(LOOP(msg.Data.ExpectedDelay))
      [] msg.MessageType = "END" -> handleMessage(END)
      [] msg.MessageType = "U" ->
             /\ handleUpdate(msg.Data.SubscriptionID, msg.Data.Item,
                             msg.Data.Values)
             /\ UNCHANGED <<sessionID, endLogged, loops>>
      [] OTHER -> UNCHANGED <<sessionID, endLogged, registryVars, loops, panicked>>

\* what ReadLine leaves alone
ReadLineFrame ==
    UNCHANGED <<uLast, uValues, uNext, replyLine, replyMsg, parseVars, input,
                lockVars, itemVars, readerPc,
                disconnects, cancelFunc, ctxDone, idVars, streamVars,
                serverVars, postVars, call, waitVars>>

\* variant of readAllMessages that gives up the body at the first line that
\* does not parse
ReadLineStopsOnError ==
    /\ Alive /\ serve[1] = "running" /\ scan < Len(input)
    /\ LET msg == ParseSessionMessage(input[scan + 1])
       IN  IF msg.ok
               THEN /\ scan' = scan + 1
                    /\ yielded' = Append(yielded, msg)
                    /\ handleParsed(msg)
               ELSE /\ scan' = Len(input)
                    /\ UNCHANGED <<yielded, sessionID, endLogged, registryVars,
                                   loops, panicked>>
    /\ ReadLineFrame

\* variant of readAllMessages that sends the zero Message of a line that
\* does not parse
ReadLineYieldsError ==
    /\ Alive /\ serve[1] = "running" /\ scan < Len(input)
    /\ scan' = scan + 1
    /\ LET msg == ParseSessionMessage(input[scan + 1])
       IN  /\ yielded' = Append(yielded, msg)
           /\ IF msg.ok
                  THEN handleParsed(msg)
                  ELSE UNCHANGED <<sessionID, endLogged, registryVars, loops,
                                   panicked>>
    /\ ReadLineFrame

\* readAllMessages reads the next line of the body of Connect and parses it;
\* a message goes on ch, where serve takes and handles it; a line that does
\* not parse is dropped and the scan goes on
ReadLine ==
    /\ Alive /\ serve[1] = "running" /\ scan < Len(input)
    /\ scan' = scan + 1
    /\ LET msg == ParseSessionMessage(input[scan + 1])
       IN  IF msg.ok
               THEN /\ yielded' = Append(yielded, msg)
                    /\ handleParsed(msg)
               ELSE UNCHANGED <<yielded, sessionID, endLogged, registryVars,
                               loops, panicked>>
    /\ ReadLineFrame

\* the scanner is at the end of the body: readAllMessages sends on done and
\* serve returns nil
ReadEnd ==
    /\ Alive /\ serve[1] = "running" /\ scan = Len(input)
    /\ ServeReturn(1)

\* --------------------------------------------------- serve and its reader
\* what a step of serve or of readAllMessages on the body of Connect leaves
\* alone
ChannelFrame ==
    UNCHANGED <<uLast, uValues, uNext, replyLine, replyMsg, parseVars, input,
                lockVars, itemVars, disconnects, cancelFunc, ctxDone, idVars,
                serverVars, postVars, call, waitVars>>

\* readAllMessages: scanner.Scan() returns a line, which is parsed; with a
\* message the reader goes to ch <- msg, without one to the next Scan
ScanLine ==
    /\ Alive /\ serve[1] = "running" /\ readerPc = "scanning"
    /\ scan < Len(input)
    /\ scan' = scan + 1
    /\ readerPc' = IF ParseSessionMessage(input[scan + 1]).ok
                       THEN "sending" ELSE "scanning"
    /\ UNCHANGED <<yielded, sessionID, endLogged, registryVars, loops, panicked,
                   streamVars>>
    /\ ChannelFrame

\* readAllMessages: scanner.Scan() returns false (the body is at its end,
\* its request is cancelled, or serve has closed it): the reader goes to
\* done <- struct{}{}
ScanStops ==
    /\ Alive /\ serve[1] # "none" /\ readerPc = "scanning"
    /\ scan = Len(input) \/ ctxDone \/ serve[1] = "returned"
    /\ readerPc' = "finishing"
    /\ UNCHANGED <<scan, yielded, sessionID, endLogged, registryVars, loops,
                   panicked, streamVars>>
    /\ ChannelFrame

\* serve, case msg := <-ch: the message is taken from the reader and
\* handled; the reader goes to the next Scan
ServeTakes ==
    /\ Alive /\ serve[1] = "running" /\ readerPc = "sending"
    /\ LET msg == ParseSessionMessage(input[scan])
       IN  /\ yielded' = Append(yielded, msg)
           /\ handleParsed(msg)
    /\ readerPc' = "scanning"
    /\ UNCHANGED <<scan, streamVars>>
    /\ ChannelFrame

\* serve, case <-done: the reader returns, and so does serve (the deferred
\* function uncounts the connection and closes the body)
ServeTakesDone ==
    /\ Alive /\ serve[1] = "running" /\ readerPc = "finishing"
    /\ readerPc' = "exited"
    /\ serve' = [serve EXCEPT ![1] = "returned"]
    /\ connections' = connections - 1
    /\ UNCHANGED <<scan, yielded, sessionID, endLogged, registryVars, loops,
                   panicked, nStreams, eof>>
    /\ ChannelFrame

\* ------------------------------------------------------- the registry lock
\* sync.RWMutex: RLock passes when no task writes or waits to write; Lock
\* passes when no task reads or writes
RLockFree == rwWriter = "none" /\ rwWaiting = {}
LockFree == rwWriter = "none" /\ \A t \in Tasks : rwReaders[t] = 0

\* what a step on the lock leaves alone
LockFrame ==
    UNCHANGED <<sessionVars, registryVars, idVars, streamVars, serverVars,
                loops, postVars, call, waitVars, panicked, uLast, uValues,
                uNext, replyLine, replyMsg, parseVars, lineVars, variant,
                itemVars, readerPc>>

\* handleUpdate of a U line of a registered subscription: the subscription
\* is looked up under the read lock (subscriptions.get in client.go,
\* handleUpdate itself in part_006)
HandleUpdateRLock ==
    /\ updPc = "idle" /\ RLockFree
    /\ rwReaders' = [rwReaders EXCEPT !["reader"] = @ + 1]
    /\ updPc' = "looked"
    /\ LockFrame /\ UNCHANGED <<rwWriter, rwWaiting, subPc>>

\* sub.update calls the callback: in client.go get has returned and its
\* deferred RUnlock has run; in part_006 the RUnlock of handleUpdate is
\* deferred to its return
HandleUpdateCallback ==
    /\ updPc = "looked"
    /\ updPc' = "callback"
    /\ rwReaders' = IF variant = "client.go"
                        THEN [rwReaders EXCEPT !["reader"] = @ - 1]
                        ELSE rwReaders
    /\ LockFrame /\ UNCHANGED <<rwWriter, rwWaiting, subPc>>

\* task t calls Subscribe (the reader from inside its callback): client.go
\* loads the session id without a lock; part_006 calls Bound, which takes
\* the read lock
SubscribeCalled(t) ==
    /\ subPc[t] = "idle" /\ (t = "reader" => updPc = "callback")
    /\ IF variant = "client.go"
           THEN /\ subPc' = [subPc EXCEPT ![t] = "gate"]
                /\ UNCHANGED rwReaders
           ELSE /\ RLockFree
                /\ rwReaders' = [rwReaders EXCEPT ![t] = @ + 1]
                /\ subPc' = [subPc EXCEPT ![t] = "bound"]
    /\ LockFrame /\ UNCHANGED <<rwWriter, rwWaiting, updPc>>

\* part_006, Bound returns: its deferred RUnlock
BoundRUnlock(t) ==
    /\ subPc[t] = "bound"
    /\ rwReaders' = [rwReaders EXCEPT ![t] = @ - 1]
    /\ subPc' = [subPc EXCEPT ![t] = "gate"]
    /\ LockFrame /\ UNCHANGED <<rwWriter, rwWaiting, updPc>>

\* the control request of client.go, sent with no lock held
ControlCall(t) ==
    /\ variant = "client.go" /\ subPc[t] = "gate"
    /\ subPc' = [subPc EXCEPT ![t] = "replied"]
    /\ LockFrame /\ UNCHANGED <<rwReaders, rwWriter, rwWaiting, updPc>>

\* task t calls Lock(): subscriptions.add after the reply in client.go, the
\* head of Subscribe after Bound in part_006
RegistryLockCalled(t) ==
    /\ subPc[t] = IF variant = "client.go" THEN "replied" ELSE "gate"
    /\ rwWaiting' = rwWaiting \cup {t}
    /\ subPc' = [subPc EXCEPT ![t] = "waiting"]
    /\ LockFrame /\ UNCHANGED <<rwReaders, rwWriter, updPc>>

\* Lock() returns
RegistryLocked(t) ==
    /\ subPc[t] = "waiting" /\ LockFree
    /\ rwWriter' = t
    /\ rwWaiting' = rwWaiting \ {t}
    /\ subPc' = [subPc EXCEPT ![t] = "locked"]
    /\ LockFrame /\ UNCHANGED <<rwReaders, updPc>>

\* the control request of part_006, sent under the write lock
LockedControlCall(t) ==
    /\ variant = "part_006" /\ subPc[t] = "locked"
    /\ subPc' = [subPc EXCEPT ![t] = "replied"]
    /\ LockFrame /\ UNCHANGED <<rwReaders, rwWriter, rwWaiting, updPc>>

\* the subscription is in the registry and the deferred Unlock runs:
\* Subscribe returns
RegistryUnlock(t) ==
    /\ subPc[t] = IF variant = "client.go" THEN "locked" ELSE "replied"
    /\ rwWriter = t
    /\ rwWriter' = "none"
    /\ subPc' = [subPc EXCEPT ![t] = "subscribed"]
    /\ LockFrame /\ UNCHANGED <<rwReaders, rwWaiting, updPc>>

\* the callback returns when its Subscribe has returned, and handleUpdate
\* after it (with the deferred RUnlock of part_006)
CallbackReturn ==
    /\ updPc = "callback" /\ subPc["reader"] = "subscribed"
    /\ updPc' = "done"
    /\ rwReaders' = IF variant = "part_006"
                        THEN [rwReaders EXCEPT !["reader"] = @ - 1]
                        ELSE rwReaders
    /\ LockFrame /\ UNCHANGED <<rwWriter, rwWaiting, subPc>>

\* the next U line
NextUpdate ==
    /\ updPc = "done"
    /\ updPc' = "idle"
    /\ subPc' = [subPc EXCEPT !["reader"] = "idle"]
    /\ LockFrame /\ UNCHANGED <<rwReaders, rwWriter, rwWaiting>>

\* ---------------------------------------------------------------- Subscribe
\* variant of the entry of Subscribe that reads the counter without adding
\* to it
SubscribeEnterReusesID(c) ==
    /\ Alive /\ call[c].pc = "idle"
    /\ \A d \in AllCallers : d < c => call[d].pc # "idle"
    /\ IF SubscribeGate
          THEN /\ call' = [call EXCEPT ![c].pc = "post",
                                       ![c].subID = subscriptionID + 1]
          ELSE /\ call' = [call EXCEPT ![c].pc = "returned",
                                       ![c].err = "no session"]
    /\ UNCHANGED <<pureVars, sessionVars, registryVars, idVars, streamVars,
                   serverVars, loops, postVars, waitVars, panicked>>

\* Subscribe up to subID := int(c.subscriptionID.Add(1)) in addSubscription:
\* errors.New("no session") while nothing is stored in sessionID, else the
\* next subscription id is taken.  The gate, once passed, stays passed (no
\* statement stores nil), so it is evaluated in the step of the Add.  Calls
\* are numbered in the order they are made.
SubscribeEnter(c) ==
    /\ Alive /\ call[c].pc = "idle"
    /\ \A d \in AllCallers : d < c => call[d].pc # "idle"
    /\ IF SubscribeGate
          THEN /\ subscriptionID' = subscriptionID + 1
               /\ call' = [call EXCEPT ![c].pc = "post",
                                       ![c].subID = subscriptionID + 1]
          ELSE /\ call' = [call EXCEPT ![c].pc = "returned",
                                       ![c].err = "no session"]
               /\ UNCHANGED subscriptionID
    /\ UNCHANGED <<pureVars, sessionVars, registryVars, requestID, streamVars, serverVars,
                   loops, postVars, waitVars, panicked>>

\* addSubscription: the form of the control POST; LS_reqId is
\* c.requestID.Add(1), LS_session the stored id, LS_subId the id allocated
ControlForm(c) ==
    [reqId |-> requestID + 1, subId |-> call[c].subID, session |-> sessionID]

\* addSubscription: the control POST is sent
PostControl(c) ==
    /\ Alive /\ call[c].pc = "post"
    /\ requestID' = requestID + 1
    /\ ctrlPosts' = Append(ctrlPosts, ControlForm(c))
    /\ call' = [call EXCEPT ![c].pc = "posted"]
    /\ UNCHANGED <<pureVars, sessionVars, registryVars, subscriptionID, streamVars,
                   serverVars, loops, bindPosts, waitVars, panicked>>

\* the subscription ids the server has answered REQOK for: from then on it
\* may write their updates
Accepted ==
    {call[c].subID : c \in {d \in AllCallers : call[d].reply = "REQOK"}}

\* Subscribe, after the call: the error it returns for reply r ("" is nil)
SubscribeError(r) ==
    CASE r = "REQOK" -> ""
      [] r = "REQERR" -> "REQERR"
      [] r = "OTHER" -> "unexpected response type"
      [] r = "MALFORMED" -> "unexpected response"
      [] r = "TRANSPORT" -> "transport"

\* the server answers the control request of call c with REQOK: the reply is
\* on its way to Subscribe, which is still inside c.call or io.ReadAll
ControlAccept(c) ==
    /\ Alive /\ call[c].pc = "posted"
    /\ call' = [call EXCEPT ![c].pc = "replied", ![c].reply = "REQOK"]
    /\ UNCHANGED <<pureVars, sessionVars, registryVars, idVars, streamVars, serverVars,
                   loops, postVars, waitVars, panicked>>

\* Subscribe, case REQOKData: c.subscriptions.add(subID, ...); return nil
SubscribeReturn(c) ==
    /\ Alive /\ call[c].pc = "replied"
    /\ subscriptions' = RegistryAdd(call[c].subID)
    /\ call' = [call EXCEPT ![c].pc = "returned",
                            ![c].err = SubscribeError(call[c].reply)]
    /\ UNCHANGED <<pureVars, sessionVars, callbacks, unknown, idVars, streamVars,
                   serverVars, loops, postVars, waitVars, panicked>>

\* variant of the error returns of Subscribe that registers the subscription
\* all the same
SubscribeFailRegisters(c, r) ==
    /\ Alive /\ call[c].pc = "posted" /\ r # "REQOK"
    /\ subscriptions' = RegistryAdd(call[c].subID)
    /\ call' = [call EXCEPT ![c].pc = "returned", ![c].reply = r,
                            ![c].err = SubscribeError(r)]
    /\ UNCHANGED <<pureVars, sessionVars, callbacks, unknown, idVars,
                   streamVars, serverVars, loops, postVars, waitVars, panicked>>

\* the control request of call c fails (r = TRANSPORT) or is answered with
\* something else than REQOK: Subscribe returns the error, nothing is added
SubscribeFail(c, r) ==
    /\ Alive /\ call[c].pc = "posted" /\ r # "REQOK"
    /\ call' = [call EXCEPT ![c].pc = "returned", ![c].reply = r,
                            ![c].err = SubscribeError(r)]
    /\ UNCHANGED <<pureVars, sessionVars, registryVars, idVars, streamVars, serverVars,
                   loops, postVars, waitVars, panicked>>

\* ------------------------------------------------------------ specification
Next ==
    \/ \E ok \in BOOLEAN : Connect(ok)
    \/ \E ok \in BOOLEAN : ConnectWithSession(ok)
    \/ Disconnect
    \/ TimeoutFires
    \/ WaitCheck
    \/ WaitPoll
    \/ WaitTimeout
    \/ \E s \in Streams, m \in Messages : Deliver(s, m)
    \/ \E s \in Streams : ServerClose(s)
    \/ \E s \in Streams : ServeDone(s)
    \/ \E s \in Streams : ServeCancelled(s)
    \/ \E i \in 1..MaxStreams : LoopWake(i)
    \/ \E i \in 1..MaxStreams : LoopCancelled(i)
    \/ \E i \in 1..MaxStreams, ok \in BOOLEAN : Rebind(i, ok)
    \/ \E c \in Callers : SubscribeEnter(c)
    \/ \E c \in Callers : PostControl(c)
    \/ \E c \in Callers : ControlAccept(c)
    \/ \E c \in Callers : SubscribeReturn(c)
    \/ \E c \in Callers, r \in Replies : SubscribeFail(c, r)

Spec == Init /\ [][Next]_vars

\* The callers against the reader: MaxConcurrent Subscribe calls in any
\* interleaving with each other and with the reader of the create_session
\* body, which carries CONOK and U lines; no bind wait, no rebind, no
\* cancellation.
NextCallers ==
    \/ \E ok \in BOOLEAN : Connect(ok)
    \/ \E s \in Streams, sid \in SessionIDs : Deliver(s, CONOK(sid))
    \/ \E s \in Streams, k \in AllSubIDs, b \in Bodies : Deliver(s, U(k, b))
    \/ \E s \in Streams : ServerClose(s)
    \/ \E s \in Streams : ServeDone(s)
    \/ \E c \in AllCallers : SubscribeEnter(c)
    \/ \E c \in AllCallers : PostControl(c)
    \/ \E c \in AllCallers : ControlAccept(c)
    \/ \E c \in AllCallers : SubscribeReturn(c)
    \/ \E c \in AllCallers, r \in Replies : SubscribeFail(c, r)

CallersSpec == Init /\ [][NextCallers]_vars

\* The readers against each other: a line the server has written stays with
\* readAllMessages until the serve task of its body takes it, so the serve
\* tasks of two open bodies handle their lines in any interleaving; no bind
\* wait, no cancellation.
NextReaders ==
    \/ \E ok \in BOOLEAN : Connect(ok)
    \/ \E s \in Streams, m \in Messages : Write(s, m)
    \/ \E s \in Streams : Take(s)
    \/ \E s \in Streams : ServerClose(s)
    \/ \E s \in Streams : ServeDone(s)
    \/ \E i \in 1..MaxStreams : LoopWake(i)
    \/ \E i \in 1..MaxStreams, ok \in BOOLEAN : Rebind(i, ok)
    \/ \E c \in Callers : SubscribeEnter(c)
    \/ \E c \in Callers : PostControl(c)
    \/ \E c \in Callers : ControlAccept(c)
    \/ \E c \in Callers : SubscribeReturn(c)
    \/ \E c \in Callers, r \in Replies : SubscribeFail(c, r)

ReadersSpec == Init /\ [][NextReaders]_vars

\* ------------------------------------------------ Values.Update on its own
\* bounds of the inputs: the length of the receiver, of the token list, and
\* the number of arguments of a control reply
MaxLen == 2
MaxTokens == 3
MaxArgs == 3

\* the values a slot of the first receiver holds (the tokens bring the
\* others in)
Slots == {Null, valuePtr("a")}
Snapshots == UNION {[1..n -> Slots] : n \in 0..MaxLen}
TokenLists == UNION {[1..n -> Tokens] : n \in 0..MaxTokens}

\* a caller of Values.Update holds a receiver and a token list
InitValues ==
    /\ InitSession
    /\ uLast \in Snapshots /\ uValues \in TokenLists /\ uNext = NoCall
    /\ replyLine = <<>> /\ replyMsg = NoReply
    /\ ParsersIdle
    /\ LinesIdle
    /\ LockUnused
    /\ ItemsUnused
    /\ ReaderIdle

sessionState ==
    <<sessionVars, registryVars, idVars, streamVars, serverVars, loops,
      postVars, call, waitVars, panicked>>

\* next, err := v.Update(values)
CallUpdate ==
    /\ uNext.kind = "none"
    /\ uNext' = Update(uLast, uValues)
    /\ UNCHANGED <<lockVars, itemVars, readerPc, sessionState, uLast, uValues, replyLine, replyMsg, parseVars, lineVars>>

\* subscription.update after the call: the result is stored when the error
\* is nil, and the next U line of the item brings another token list
StoreAndNext(values) ==
    /\ uNext.kind \in {"ok", "error"}
    /\ uLast' = IF uNext.kind = "ok" THEN uNext.val ELSE uLast
    /\ uValues' = values
    /\ uNext' = NoCall
    /\ UNCHANGED <<lockVars, itemVars, readerPc, sessionState, replyLine, replyMsg, parseVars, lineVars>>

NextValues ==
    \/ CallUpdate
    \/ \E values \in Bodies : StoreAndNext(values)

ValuesSpec == InitValues /\ [][NextValues]_vars

\* ------------------------------------------------ a control reply on its own
ControlLines ==
    {<<k>> \o args : k \in Kinds,
                     args \in UNION {[1..n -> Fields] : n \in 0..MaxArgs}}

InitControl ==
    /\ InitSession
    /\ uLast = <<>> /\ uValues = <<>> /\ uNext = NoCall
    /\ replyLine \in ControlLines /\ replyMsg = NoReply
    /\ ParsersIdle
    /\ LinesIdle
    /\ LockUnused
    /\ ItemsUnused
    /\ ReaderIdle

\* Subscribe from ParseControlMessage on
ReadReply ==
    /\ replyMsg.class = "none"
    /\ replyMsg' = SubscribeOutcome(replyLine)
    /\ UNCHANGED <<lockVars, itemVars, readerPc, sessionState, uLast, uValues, uNext, replyLine, parseVars, lineVars>>

NextControl == ReadReply

ControlSpec == InitControl /\ [][NextControl]_vars

\* ------------------------------------------------------ the parsers on their own
\* bound of the inputs: the number of arguments of a session line
MaxParts == 4

\* the lines handed to the parsers: every kind of the two tables and one
\* other first field, with up to MaxParts arguments; and the control lines
ParserLines ==
    {<<k>> \o args :
        k \in SessionKinds \cup {OtherKind, "REQOK", "REQERR"},
        args \in UNION {[1..n -> Args] : n \in 0..MaxParts}}

InitParsers ==
    /\ InitSession
    /\ uLast = <<>> /\ uValues = <<>> /\ uNext = NoCall
    /\ replyLine = <<>> /\ replyMsg = NoReply
    /\ parseLine \in ParserLines /\ sessionMsg = NoParse /\ controlMsg = NoParse
    /\ LinesIdle
    /\ LockUnused
    /\ ItemsUnused
    /\ ReaderIdle

\* the line is given to ParseSessionMessage
ParseAsSession ==
    /\ sessionMsg = NoParse
    /\ sessionMsg' = ParseSessionMessage(parseLine)
    /\ UNCHANGED <<sessionState, uLast, uValues, uNext, replyLine, replyMsg,
                   parseLine, controlMsg, lineVars, lockVars, itemVars, readerPc>>

\* the line is given to ParseControlMessage
ParseAsControl ==
    /\ controlMsg = NoParse
    /\ controlMsg' = ParseControlMessage(parseLine)
    /\ UNCHANGED <<sessionState, uLast, uValues, uNext, replyLine, replyMsg,
                   parseLine, sessionMsg, lineVars, lockVars, itemVars, readerPc>>

NextParsers == ParseAsSession \/ ParseAsControl

ParsersSpec == InitParsers /\ [][NextParsers]_vars

\* ------------------------------------------------- a body given line by line
\* bound of the input: the number of lines of the body
MaxLines == 3

\* the lines of the body: CONOK, well-formed and too short, SYNC with and
\* without a number, END, PROBE, and a line of no known kind
StreamLines ==
    {<<"CONOK", "s1", "7", "7", "x">>, <<"CONOK">>, <<"SYNC", "7">>,
     <<"SYNC", "x">>, <<"END", "7", "x">>, <<"PROBE">>, <<"FOO", "x">>}

Inputs == UNION {[1..n -> StreamLines] : n \in 0..MaxLines}

InitLines ==
    /\ InitSession
    /\ uLast = <<>> /\ uValues = <<>> /\ uNext = NoCall
    /\ replyLine = <<>> /\ replyMsg = NoReply
    /\ ParsersIdle
    /\ input \in Inputs /\ scan = 0 /\ yielded = <<>>
    /\ LockUnused
    /\ ItemsUnused
    /\ ReaderIdle

NextLines ==
    \/ \E ok \in BOOLEAN : Connect(ok)
    \/ ReadLine
    \/ ReadEnd

LinesSpec == InitLines /\ [][NextLines]_vars

\* ------------------------------------- a body of every kind, and a caller
\* the lines of the body: CONOK, an update of subscription 1, a well-formed
\* line of each kind that handleMessage has no statement for, and lines
\* whose first field has no parser (with two fields, with none, and the
\* empty line)
KindLines ==
    {<<"CONOK", "s1", "7", "7", "x">>, <<"U", "1", "1", "a">>,
     <<"SERVNAME", "x">>, <<"CLIENTIP", "x">>, <<"CONS", "1.5">>,
     <<"NOOP", "x">>, <<"PROBE">>, <<"SUBOK", "1", "7", "7">>,
     <<"CONF", "1", "1.5", "filtered">>, <<"PROG", "7">>,
     <<"FOO", "x", "7">>, <<"FOO">>, <<"">>}

KindInputs == UNION {[1..n -> KindLines] : n \in 0..MaxLines}

InitKinds ==
    /\ InitSession
    /\ uLast = <<>> /\ uValues = <<>> /\ uNext = NoCall
    /\ replyLine = <<>> /\ replyMsg = NoReply
    /\ ParsersIdle
    /\ input \in KindInputs /\ scan = 0 /\ yielded = <<>>
    /\ LockUnused
    /\ ItemsUnused
    /\ ReaderIdle

\* the reader of the body of Connect against one caller of Subscribe
NextKinds ==
    \/ \E ok \in BOOLEAN : Connect(ok)
    \/ ReadLine
    \/ ReadEnd
    \/ \E c \in Callers : SubscribeEnter(c)
    \/ \E c \in Callers : PostControl(c)
    \/ \E c \in Callers : ControlAccept(c)
    \/ \E c \in Callers : SubscribeReturn(c)
    \/ \E c \in Callers, r \in Replies : SubscribeFail(c, r)

KindsSpec == InitKinds /\ [][NextKinds]_vars

\* ------------------------------------------- the snapshots of several items
\* the token lists of the U lines: the bodies of the session model and a
\* second plain value
Deltas == Bodies \cup {<<"b">>}

InitItems ==
    /\ InitSession
    /\ uLast = <<>> /\ uValues = <<>> /\ uNext = NoCall
    /\ replyLine = <<>> /\ replyMsg = NoReply
    /\ ParsersIdle
    /\ LinesIdle
    /\ LockUnused
    /\ decoder \in Decoders /\ ItemsIdle
    /\ ReaderIdle

\* the reader of the body of Connect, which carries CONOK and the U lines of
\* two items, against MaxConcurrent callers of Subscribe
NextItems ==
    \/ \E ok \in BOOLEAN : Connect(ok)
    \/ \E sid \in SessionIDs : Deliver(1, CONOK(sid))
    \/ \E k \in AllSubIDs, item \in ItemNumbers, values \in Deltas :
           DispatchUpdate(k, item, values)
    \/ \E c \in AllCallers : SubscribeEnter(c)
    \/ \E c \in AllCallers : PostControl(c)
    \/ \E c \in AllCallers : ControlAccept(c)
    \/ \E c \in AllCallers : SubscribeReturn(c)
    \/ \E c \in AllCallers, r \in Replies : SubscribeFail(c, r)

ItemsSpec == InitItems /\ [][NextItems]_vars

\* ------------------------------------------------ serve against its reader
InitChannels ==
    /\ InitSession
    /\ uLast = <<>> /\ uValues = <<>> /\ uNext = NoCall
    /\ replyLine = <<>> /\ replyMsg = NoReply
    /\ ParsersIdle
    /\ input \in Inputs /\ scan = 0 /\ yielded = <<>>
    /\ LockUnused
    /\ ItemsUnused
    /\ ReaderIdle

\* serve of the body of Connect and its readAllMessages, statement by
\* statement, against Disconnect
NextChannels ==
    \/ \E ok \in BOOLEAN : Connect(ok)
    \/ Disconnect
    \/ ScanLine
    \/ ScanStops
    \/ ServeTakes
    \/ ServeTakesDone
    \/ ServeCancelled(1)

ChannelsSpec == InitChannels /\ [][NextChannels]_vars

\* ------------------------------------------------ the registry lock on its own
InitLock ==
    /\ InitSession
    /\ uLast = <<>> /\ uValues = <<>> /\ uNext = NoCall
    /\ replyLine = <<>> /\ replyMsg = NoReply
    /\ ParsersIdle
    /\ LinesIdle
    /\ variant \in Variants /\ LockIdle
    /\ ItemsUnused
    /\ ReaderIdle

NextLock ==
    \/ HandleUpdateRLock
    \/ HandleUpdateCallback
    \/ \E t \in Tasks : SubscribeCalled(t)
    \/ \E t \in Tasks : BoundRUnlock(t)
    \/ \E t \in Tasks : ControlCall(t)
    \/ \E t \in Tasks : RegistryLockCalled(t)
    \/ \E t \in Tasks : RegistryLocked(t)
    \/ \E t \in Tasks : LockedControlCall(t)
    \/ \E t \in Tasks : RegistryUnlock(t)
    \/ CallbackReturn
    \/ NextUpdate

LockSpec == InitLock /\ [][NextLock]_vars

\* The scheduling the liveness claims rest on: a goroutine that can run does
\* run (the bind wait, the rebinder), a timer that is set fires, and a select
\* whose ctx.Done() case is ready again and again takes it at last.
FairSpec ==
    /\ Spec
    /\ WF_vars(TimeoutFires)
    /\ WF_vars(WaitCheck)
    /\ SF_vars(WaitTimeout)
    /\ WF_vars(\E i \in 1..MaxStreams : LoopWake(i))
    /\ WF_vars(\E i \in 1..MaxStreams, ok \in BOOLEAN : Rebind(i, ok))
    /\ WF_vars(\E s \in Streams : ServeCancelled(s))

\* ------------------------------------------------------------------- claims
Waiting == waitPc \in {"check", "select"}

\* C1: a U line whose subscription id is not in the registry is dropped: the
\* reader does not crash and goes on with the lines that follow.
C1_UnknownUpdateDropped == unknown # {} => Alive

\* C2: an update the server writes after it has answered REQOK for its
\* subscription is never handled as an update of an unknown subscription.
C2_AcceptedUpdateIsRegistered == \A k \in unknown : k \notin Accepted

\* the create_session body has carried a CONOK with id sid and a LOOP whose
\* delay is over, and has ended; no rebind has been tried yet
LoopedAndEnded(sid) ==
    /\ nStreams = 1 /\ eof[1] /\ Alive /\ ~ctxDone
    /\ sessionID = sid
    /\ Len(loops) = 1 /\ loops[1].st = "ready"

\* C3: after CONOK with id sid, LOOP with delay 0 and the end of the
\* create_session body, and without cancellation, the client eventually has
\* sent exactly one bind_session POST, with LS_session = sid; and it never
\* sends more bind_session POSTs than it has handled LOOP lines.
C3_RebindPosted ==
    /\ [](Len(bindPosts) <= Len(loops))
    /\ \A sid \in SessionIDs :
          LoopedAndEnded(sid) ~> (bindPosts = <<sid>> \/ ctxDone)

C3_Witness ==
    /\ bindPosts = <<"s1">> /\ eof[1] /\ Len(loops) = 1 /\ ~ctxDone
    /\ loops[1].st = "done" /\ nStreams = 2

\* C4: once the bind timeout error has been returned, no bind_session request
\* is sent any more.
C4_NoBindAfterTimeout == [][waitPc = "timeout" => bindPosts' = bindPosts]_vars

\* C5: when no CONOK arrives, the bind wait ends with the timeout error: it
\* never returns success without a stored session id, and it does not wait
\* for ever.  (The wait is also over when the process is: a U or LOOP line
\* written before any CONOK kills it, see C1 and the rebinder.)
C5_TimeoutReturned ==
    /\ [](waitPc = "ok" => sessionID # NoSession)
    /\ Waiting ~> (waitPc = "timeout" \/ sessionID # NoSession \/ panicked)

C5_Witness == waitPc = "timeout" /\ sessionID = NoSession /\ emitted > 0

\* C6: when the session id was stored strictly before the bind timeout
\* expired, the bind wait returns success, not the timeout error.
C6_BoundBeforeExpirySucceeds == waitPc = "timeout" => ~boundAtExpiry

\* C7: before any CONOK has been handled, Subscribe returns the no-session
\* error: no control POST is sent, nothing is registered and no request id
\* or subscription id is taken.
C7_NoSessionNoSubscribe ==
    sessionID = NoSession =>
        /\ ctrlPosts = <<>>
        /\ DOMAIN subscriptions = {}
        /\ subscriptionID = 0 /\ requestID = 0
        /\ \A c \in Callers :
              \/ call[c].pc = "idle"
              \/ call[c].pc = "returned" /\ call[c].err = "no session"

C7_Witness ==
    /\ sessionID = NoSession /\ nStreams = 1
    /\ \E c \in Callers : call[c].pc = "returned" /\ call[c].err = "no session"

\* C8: the session id is used (in a control request, in a bind_session
\* request) only when Bound, that is when it is a non-empty string: the gate
\* of Subscribe lets through what SessionEstablished accepts.
C8_SessionIdUsedOnlyWhenBound ==
    /\ \A i \in DOMAIN ctrlPosts : ctrlPosts[i].session \notin {NoSession, ""}
    /\ \A i \in DOMAIN bindPosts : bindPosts[i] \notin {NoSession, ""}

\* C9: once a session id is stored, only the handling of a CONOK line changes
\* it: LOOP, the rebind (successful or failed), END and the end of a body
\* leave it as it is.
C9_SessionIdKept ==
    [][(sessionID # NoSession /\ sessionID' # sessionID)
          => \E s \in Streams, sid \in SessionIDs : Deliver(s, CONOK(sid))]_vars

C9_Witness ==
    /\ sessionID = "s1" /\ bindPosts = <<"s1">>
    /\ \E i \in DOMAIN loops : loops[i].st = "failed"

\* C10: a Subscribe issued after END has been handled is rejected as not
\* bound and sends no control request.
C10_SubscribeAfterEndRejected ==
    [][\A c \in Callers :
          (endLogged /\ call[c].pc = "idle" /\ call'[c].pc # "idle")
              => (call'[c].pc = "returned" /\ call'[c].err = "no session")]_vars

\* a bind_session request of the rebinder has failed
RebindFailed == \E i \in DOMAIN loops : loops[i].st = "failed"

\* C11: once a bind_session request of a rebind has failed, every Subscribe
\* issued afterwards returns the no-session error and sends no control request.
C11_SubscribeAfterFailedRebindRejected ==
    [][\A c \in Callers :
          (RebindFailed /\ call[c].pc = "idle" /\ call'[c].pc # "idle")
              => (call'[c].pc = "returned" /\ call'[c].err = "no session")]_vars

\* the calls that have returned nil
ReturnedOK == {c \in AllCallers : call[c].pc = "returned" /\ call[c].reply = "REQOK"}

\* C12: the registry holds exactly the subscription ids of the Subscribe
\* calls whose control reply was REQOK, each an id that was sent as LS_subId;
\* a call returns nil exactly when its reply was REQOK, so after REQERR, a
\* reply of another kind, a malformed reply or a failed request Subscribe
\* returns an error and the registry is as it was.
C12_RegisteredIffAccepted ==
    /\ DOMAIN subscriptions = {call[c].subID : c \in ReturnedOK}
    /\ \A c \in AllCallers :
          call[c].pc = "returned" => (call[c].err = "" <=> call[c].reply = "REQOK")
    /\ \A k \in DOMAIN subscriptions :
          \E i \in DOMAIN ctrlPosts : ctrlPosts[i].subId = k

C12_Witness ==
    \E c, d \in AllCallers :
        /\ call[c].pc = "returned" /\ call[c].reply = "REQOK"
        /\ call[d].pc = "returned" /\ call[d].reply = "REQERR"
        /\ DOMAIN subscriptions = {call[c].subID}

\* the text of an error holds the piece x
Contains(text, x) == \E i \in DOMAIN text : text[i] = x

\* the reply is a REQERR line with a request id, a numeric code and a message
IsReqErrLine(line) ==
    /\ Len(line) = 4 /\ line[1] = "REQERR"
    /\ ~AtoiFieldFails(line[2]) /\ ~AtoiFieldFails(line[3])

\* C13: for a REQERR reply with a request id, a numeric error code and a
\* message, Subscribe returns an error whose text holds the code (as a
\* decimal number) and the message.
C13_ReqErrTextHasCodeAndMessage ==
    (replyMsg.class # "none" /\ IsReqErrLine(replyLine)) =>
        /\ replyMsg.class = "REQERR"
        /\ Contains(replyMsg.err, Itoa(AtoiField(replyLine[3])))
        /\ Contains(replyMsg.err, replyLine[4])

C13_Witness ==
    /\ replyLine = <<"REQERR", "7", "14", "bad group">>
    /\ replyMsg.err = <<"14", ": ", "bad group">>

\* C14: no two control requests carry the same LS_subId; the ids are taken
\* in increasing order, call after call, whatever becomes of the calls; a
\* call that is about to register finds its id free.
C14_SubscriptionIdsUnique ==
    /\ \A i, j \in DOMAIN ctrlPosts :
          i # j => ctrlPosts[i].subId # ctrlPosts[j].subId
    /\ \A c, d \in AllCallers :
          (c < d /\ call[c].subID > 0 /\ call[d].subID > 0)
              => call[c].subID < call[d].subID
    /\ \A c \in AllCallers :
          call[c].pc \in {"post", "posted", "replied"}
              => ~Registered(call[c].subID)
    /\ \A c \in AllCallers : call[c].subID <= subscriptionID

C14_Witness ==
    /\ Len(ctrlPosts) = 2 /\ ctrlPosts[1].subId = 1 /\ ctrlPosts[2].subId = 2
    /\ DOMAIN subscriptions = {1, 2}

\* C15: the LS_reqId values of the control requests increase from request to
\* request, and no value used as LS_reqId is also used as LS_subId.
C15_RequestIdsApartFromSubscriptionIds ==
    /\ \A i, j \in DOMAIN ctrlPosts :
          i < j => ctrlPosts[i].reqId < ctrlPosts[j].reqId
    /\ {ctrlPosts[i].reqId : i \in DOMAIN ctrlPosts}
          \cap {ctrlPosts[i].subId : i \in DOMAIN ctrlPosts} = {}

\* C16: once the context of Connect is cancelled, every serve task that is
\* running returns (its deferred function closes the body): no serve task
\* stays running.
C16_ReadersStopAfterCancel ==
    ctxDone ~> (panicked \/ \A s \in Streams : serve[s] # "running")

C16_Witness ==
    /\ ctxDone /\ nStreams = 1 /\ serve[1] = "returned" /\ ~eof[1]
    /\ connections = 0

\* C17: a Disconnect changes nothing but the cancellation of the context,
\* and not even that when Connect was never called or the context is
\* cancelled already: it never fails, and a second call leaves the session
\* as the first one left it.
C17_DisconnectIdempotent ==
    [][Disconnect =>
          /\ UNCHANGED <<sessionID, cancelFunc, endLogged, registryVars, idVars,
                         streamVars, serverVars, loops, postVars, call,
                         waitVars, panicked, pureVars>>
          /\ (~cancelFunc \/ ctxDone) => ctxDone' = ctxDone]_vars

C17_Witness == disconnects = 2 /\ cancelFunc /\ ctxDone /\ Alive

\* the reader handles the U line of subscription k with token list b
UpdateDelivered(k, b) == \E s \in Streams : Deliver(s, U(k, b))

\* C18: when the reader handles a U line of a registered subscription whose
\* token list is a valid update of the stored snapshot, the callback runs
\* once, with the item of the line and the snapshot Values.Update returns
\* (from the empty snapshot for the first update); and the callback runs on
\* no other occasion.
C18_ValidUpdateOneCallback ==
    [][/\ \A k \in SubIDs, b \in Bodies :
             (/\ UpdateDelivered(k, b) /\ Registered(k)
              /\ Update(subscriptions[k], b).kind = "ok")
                 => callbacks' = Append(callbacks,
                                        <<k, Item, Update(subscriptions[k], b).val>>)
       /\ callbacks' # callbacks
             => \E k \in SubIDs, b \in Bodies :
                    /\ UpdateDelivered(k, b) /\ Registered(k)
                    /\ Update(subscriptions[k], b).kind = "ok"]_vars

C18_Witness ==
    /\ callbacks = <<<<1, Item, <<valuePtr("a")>>>>, <<1, Item, <<valuePtr("a")>>>>>>
    /\ updates = 2 /\ handled = <<[n |-> 1, k |-> 1], [n |-> 2, k |-> 1]>>

\* C19: the callbacks of a subscription run in the order in which the server
\* wrote their U lines, also when the lines are on two bodies.
C19_CallbacksInStreamOrder ==
    \A i, j \in DOMAIN handled :
        (i < j /\ handled[i].k = handled[j].k) => handled[i].n < handled[j].n

\* C20: a successful Values.Update of a non-empty snapshot returns a snapshot
\* of the same length, so the stored snapshot of an item, once it is not
\* empty, keeps its length through every later update.
C20_UpdateKeepsLength ==
    /\ [](uNext.kind = "ok" /\ Len(uLast) > 0 => Len(uNext.val) = Len(uLast))
    /\ [][Len(uLast) > 0 => Len(uLast') = Len(uLast)]_vars

C20_Witness ==
    /\ uLast = <<valuePtr("a"), Null>> /\ uValues = <<"^1", "b">>
    /\ uNext = UpdateOK(<<valuePtr("a"), valuePtr("b")>>)

\* the number a skip token is written with, and the positions a token takes
SkipCount(value) ==
    CASE value = "^0" -> 0
      [] value = "^1" -> 1
      [] value = "^2" -> 2
      [] value = "^-1" -> 0 - 1
      [] OTHER -> 0
Positions(value) == IF IsSkip(value) THEN SkipCount(value) ELSE 1

\* the cursor before token i of a token list (0-based, as in the claim)
RECURSIVE CursorBefore(_, _)
CursorBefore(values, i) ==
    IF i <= 1 THEN 0
              ELSE CursorBefore(values, i - 1) + Positions(values[i - 1])

\* the cursor after the last token
CursorAfter(values) == CursorBefore(values, Len(values) + 1)

\* the snapshot a call works on: an empty receiver takes the length of the
\* token list, every slot null
Working(v, values) ==
    IF Len(v) = 0 THEN [i \in 1..Len(values) |-> Null] ELSE v

\* the token list has a skip with a negative count, or one that is no number
HasNegativeSkip(values) == \E i \in DOMAIN values : values[i] = "^-1"
HasInvalidSkip(values) == \E i \in DOMAIN values : values[i] = "^x"

\* C21: Values.Update returns a snapshot only when the cursor after the last
\* token equals the length of the snapshot: a token list that takes more or
\* fewer positions than the snapshot has, also by a skip past the end, or
\* that holds a ^ without an integer, never yields a snapshot, and (no skip
\* being negative) returns an error with the empty Values.
C21_UpdateNeedsExactCursor ==
    /\ uNext.kind = "ok" =>
           CursorAfter(uValues) = Len(Working(uLast, uValues))
    /\ (/\ uNext.kind # "none"
        /\ \/ HasInvalidSkip(uValues)
           \/ CursorAfter(uValues) # Len(Working(uLast, uValues)))
           => /\ uNext.kind # "ok"
              /\ uNext.val = <<>>
              /\ ~HasNegativeSkip(uValues) => uNext.kind = "error"

C21_Witness ==
    /\ uLast = <<valuePtr("a")>> /\ uValues = <<"^2", "b">>
    /\ uNext = UpdateError("invalid value")

\* what a token that is no skip makes of the slot under the cursor
Decoded(value) == IF value = "%61" THEN "a" ELSE value
Applied(value, old) ==
    CASE value = "" -> old
      [] value = "#" -> Null
      [] value = "$" -> valuePtr("")
      [] OTHER -> valuePtr(Decoded(value))

\* the tokens of a list that write slot j (1-based): those that are neither
\* a skip nor empty and find the cursor on j
Writers(values, j) ==
    {i \in DOMAIN values :
        /\ ~IsSkip(values[i]) /\ values[i] # ""
        /\ CursorBefore(values, i) + 1 = j}
Last(S) == CHOOSE i \in S : \A k \in S : k <= i

\* C22: in a successful Values.Update every token that is no skip acts on
\* the slot under the cursor by its type alone: empty keeps the slot, # makes
\* it null, $ the empty string, any other token stores its percent-decoded
\* value (the raw token when it does not decode), so a slot holds what the
\* last token that found the cursor on it stored, or what it held before;
\* null renders as <nil> and the empty string as empty; and a list of empty
\* tokens, one per slot, returns the snapshot it was given.
C22_TokenActsBySlotType ==
    /\ uNext.kind = "ok" =>
           \A j \in DOMAIN uNext.val :
               LET W == Writers(uValues, j)
                   old == Working(uLast, uValues)[j]
               IN  /\ uNext.val[j] =
                          IF W = {} THEN old ELSE Applied(uValues[Last(W)], old)
                   /\ (W # {} /\ uValues[Last(W)] = "#")
                          => String(uNext.val)[j] = "<nil>"
                   /\ (W # {} /\ uValues[Last(W)] = "$")
                          => String(uNext.val)[j] = ""
    /\ (/\ uNext.kind # "none" /\ Len(uValues) = Len(uLast)
        /\ \A i \in DOMAIN uValues : uValues[i] = "")
           => uNext = UpdateOK(uLast)

C22_Witness ==
    /\ uLast = <<valuePtr("a"), Null>> /\ uValues = <<"$", "%61">>
    /\ uNext = UpdateOK(<<valuePtr(""), valuePtr("a")>>)

\* C23: in a successful Values.Update (no negative skips) a skip ^n moves
\* the cursor by n, not n + 1: the n slots from the cursor on keep what they
\* held, and the token after the skip acts on the slot n further on.
C23_SkipAdvancesByCount ==
    (uNext.kind = "ok" /\ ~HasNegativeSkip(uValues)) =>
        \A i \in DOMAIN uValues :
            IsSkip(uValues[i]) =>
                LET c == CursorBefore(uValues, i)
                    n == SkipCount(uValues[i])
                IN  /\ \A j \in (c + 1)..(c + n) :
                           uNext.val[j] = Working(uLast, uValues)[j]
                    /\ (i < Len(uValues) /\ ~IsSkip(uValues[i + 1])) =>
                           uNext.val[c + n + 1] =
                               Applied(uValues[i + 1],
                                       Working(uLast, uValues)[c + n + 1])

C23_Witness ==
    /\ uLast = <<Null, valuePtr("a")>> /\ uValues = <<"^1", "b">>
    /\ uNext = UpdateOK(<<Null, valuePtr("b")>>)

\* the message tables: which fields are numbers, and the numbers they stand for
IsInt(f) == f \in {"7", "14", "014"}
IntOf(f) == IF f = "7" THEN 7 ELSE 14
IsFloat(f) == IsInt(f) \/ f \in {"1.5", "unlimited"}
FloatOf(f) ==
    CASE f = "unlimited" -> "+Inf"
      [] f = "1.5" -> "1.5"
      [] f = "7" -> "7"
      [] OTHER -> "14"

\* the number of arguments a kind takes (NOOP takes any number), and the
\* positions of its integer and float arguments
ArgCount(kind) ==
    CASE kind = "CONOK" -> 4
      [] kind \in {"SERVNAME", "CLIENTIP", "CONS", "SYNC", "LOOP", "PROG",
                   "REQOK"} -> 1
      [] kind = "PROBE" -> 0
      [] kind = "END" -> 2
      [] kind \in {"U", "SUBOK", "CONF", "REQERR"} -> 3
      [] OTHER -> 0
IntArgs(kind) ==
    CASE kind = "CONOK" -> {2, 3}
      [] kind \in {"SYNC", "LOOP", "PROG", "END", "CONF", "REQOK"} -> {1}
      [] kind \in {"U", "REQERR"} -> {1, 2}
      [] kind = "SUBOK" -> {1, 2, 3}
      [] OTHER -> {}
FloatArgs(kind) ==
    CASE kind = "CONS" -> {1}
      [] kind = "CONF" -> {2}
      [] OTHER -> {}

WrongCount(kind, args) == kind # "NOOP" /\ Len(args) # ArgCount(kind)
BadNumber(kind, args) ==
    \/ \E i \in IntArgs(kind) \cap DOMAIN args : ~IsInt(args[i])
    \/ \E i \in FloatArgs(kind) \cap DOMAIN args : ~IsFloat(args[i])
WellFormed(kind, args) ==
    /\ ~WrongCount(kind, args) /\ ~BadNumber(kind, args)
    /\ kind = "CONF" => args[3] \in {"filtered", "unfiltered"}

\* the typed data of a well-formed line
TableData(kind, args) ==
    CASE kind = "CONOK" ->
             [SessionID |-> args[1], ControlLink |-> args[4],
              RequestLimit |-> IntOf(args[2]), KeepAliveTime |-> IntOf(args[3])]
      [] kind = "SERVNAME" -> [ServerName |-> args[1]]
      [] kind = "CLIENTIP" -> [ClientIP |-> args[1]]
      [] kind = "NOOP" -> [Preamble |-> args]
      [] kind = "CONS" -> [Bandwidth |-> FloatOf(args[1])]
      [] kind = "SYNC" -> [SecondsSinceInitialHeader |-> IntOf(args[1])]
      [] kind = "PROBE" -> "nil"
      [] kind = "LOOP" -> [ExpectedDelay |-> IntOf(args[1])]
      [] kind = "END" -> [Message |-> args[2], Code |-> IntOf(args[1])]
      [] kind = "U" ->
             [Values |-> <<args[3]>>, SubscriptionID |-> IntOf(args[1]),
              Item |-> IntOf(args[2])]
      [] kind = "SUBOK" ->
             [SubscriptionID |-> IntOf(args[1]), Items |-> IntOf(args[2]),
              Fields |-> IntOf(args[3])]
      [] kind = "CONF" ->
             [SubscriptionID |-> IntOf(args[1]),
              MaxFrequency |-> FloatOf(args[2]),
              Filtered |-> (args[3] = "filtered")]
      [] kind = "PROG" -> [Progressive |-> IntOf(args[1])]

\* ParseSessionMessage does on the line of a recognised kind what the table
\* says, for the kinds in K
SessionParserAsTable(K) ==
    (sessionMsg # NoParse /\ Head(parseLine) \in K) =>
        LET kind == Head(parseLine)
            args == Tail(parseLine)
        IN  /\ WellFormed(kind, args) =>
                   sessionMsg = Message(kind, TableData(kind, args))
            /\ (WrongCount(kind, args) \/ BadNumber(kind, args)) =>
                   sessionMsg = ParseError

\* ParseControlMessage does on a REQOK or REQERR line what the table says
ControlParserAsTable ==
    (controlMsg # NoParse /\ Head(parseLine) \in {"REQOK", "REQERR"}) =>
        LET kind == Head(parseLine)
            args == Tail(parseLine)
        IN  /\ WellFormed(kind, args) =>
                   /\ controlMsg.ok /\ controlMsg.kind = kind
                   /\ controlMsg.RequestID = IntOf(args[1])
                   /\ kind = "REQERR" =>
                          /\ controlMsg.ErrorCode = IntOf(args[2])
                          /\ controlMsg.ErrorMessage = args[3]
            /\ (WrongCount(kind, args) \/ BadNumber(kind, args)) =>
                   ~controlMsg.ok

\* C24: for every recognised kind the parsers return the typed data of the
\* line when it has the arguments of the message table, and a parse error
\* and no message when the number of arguments is wrong or a numeric
\* argument is no number.
C24_ParsersFollowTable ==
    SessionParserAsTable(SessionKinds) /\ ControlParserAsTable

\* what holds of the parsers: the same with PROBE left out, whose parser
\* takes any arguments
ParsersFollowTableButProbe ==
    SessionParserAsTable(SessionKinds \ {"PROBE"}) /\ ControlParserAsTable

\* the serve tasks that have started and not returned
Running == {s \in Streams : serve[s] = "running"}

\* C25: at most one serve task is active at any time, also across a rebind:
\* the connection count never exceeds 1.
C25_AtMostOneReader == Cardinality(Running) <= 1 /\ connections <= 1

\* C27: a LOOP with a positive delay starts a rebinder that sleeps; a
\* sleeping rebinder sends nothing and starts nothing before it wakes or is
\* cancelled, a cancelled one stays so, a bind_session POST is sent only by a
\* rebinder that has finished its sleep, and once the context is cancelled no
\* bind_session POST is sent and no reader is started.
C27_RebindSleepCancellable ==
    [][/\ \A s \in Streams, d \in Delays :
             (d > 0 /\ Deliver(s, LOOP(d)))
                 => loops' = Append(loops, [st |-> "sleeping"])
       /\ \A i \in DOMAIN loops :
             /\ loops[i].st = "sleeping"
                    => loops'[i].st \in {"sleeping", "ready", "cancelled"}
             /\ loops[i].st = "cancelled" => loops'[i].st = "cancelled"
       /\ bindPosts' # bindPosts
             => \E i \in DOMAIN loops :
                    loops[i].st = "ready" /\ loops'[i].st \in {"done", "failed"}
       /\ ctxDone => (bindPosts' = bindPosts /\ nStreams' = nStreams
                      /\ Running' \subseteq Running)]_vars

C27_Witness ==
    /\ Len(loops) = 1 /\ loops[1].st = "cancelled" /\ ctxDone
    /\ bindPosts = <<>> /\ nStreams = 1 /\ sessionID = "s1"

\* line l parses, and the messages of the lines of a sequence that parse
Parses(l) == ParseSessionMessage(l).ok
MessagesOf(ls) ==
    LET good == SelectSeq(ls, Parses)
    IN  [i \in 1..Len(good) |-> ParseSessionMessage(good[i])]

\* the lines read so far, and the index of the last of them that is a
\* well-formed line of kind k (0 when there is none)
Scanned == SubSeq(input, 1, scan)
LastOf(k) ==
    LET S == {i \in 1..scan : input[i][1] = k /\ Parses(input[i])}
    IN  IF S = {} THEN 0 ELSE CHOOSE i \in S : \A j \in S : j <= i

\* C28: handling END changes neither the reader nor the session id nor the
\* registry; the lines after END on the body are handled as before (a CONOK
\* after END is stored); the reader returns only at the end of the body,
\* and not by a panic.
C28_EndDoesNotStopReader ==
    /\ [][(scan' = scan + 1 /\ Parses(input[scan'])
           /\ input[scan'][1] = "END")
             => /\ endLogged'
                /\ UNCHANGED <<sessionID, registryVars, idVars, streamVars,
                               loops, panicked>>]_vars
    /\ [](sessionID = IF LastOf("CONOK") = 0 THEN NoSession
                                             ELSE input[LastOf("CONOK")][2])
    /\ [](endLogged <=> LastOf("END") # 0)
    /\ [](serve[1] = "returned" => (scan = Len(input) /\ ~panicked))

C28_Witness ==
    /\ input = <<<<"END", "7", "x">>, <<"CONOK", "s1", "7", "7", "x">>>>
    /\ scan = 2 /\ endLogged /\ sessionID = "s1" /\ serve[1] = "returned"
    /\ Len(yielded) = 2

StopOnInvalidInput ==
    <<<<"CONOK", "s1", "7", "7", "x">>, <<"SYNC", "x">>, <<"END", "7", "x">>>>

\* the first line read that does not parse (0 when all parse)
FirstInvalid ==
    LET S == {i \in 1..scan : ~Parses(input[i])}
    IN  IF S = {} THEN 0 ELSE CHOOSE i \in S : \A j \in S : i <= j

HeldByHandleUpdate ==
    rwReaders["reader"] - (IF subPc["reader"] = "bound" THEN 1 ELSE 0)
C26_NoLockInCallback ==
    /\ updPc = "callback" => HeldByHandleUpdate = 0
    /\ subPc["reader"] = "waiting" => rwReaders["reader"] = 0

\* what holds of client.go alone
NoLockInCallbackOfClientGo == variant = "client.go" => C26_NoLockInCallback

\* the kinds handleMessage has an empty case for
InformationalKinds ==
    {"SERVNAME", "CLIENTIP", "CONS", "NOOP", "PROBE", "SUBOK", "CONF", "PROG"}

\* the line the reader reads in this step
LineRead == input[scan + 1]

\* C31: a line whose first field is no recognised kind parses, without an
\* error, into an unsupported message that carries the other fields; when
\* the reader handles such a message, or the message of an informational
\* kind, the session id, the registry, the snapshots and the id counters
\* stay as they are, no callback is invoked and the process goes on.
C31_UnsupportedAndInformationalIgnored ==
    [][scan' = scan + 1 =>
          /\ Head(LineRead) \notin SessionKinds =>
                 yielded' = Append(yielded,
                                   [ok |-> TRUE, MessageType |-> Head(LineRead),
                                    Data |-> [Values |-> Tail(LineRead)]])
          /\ (/\ Head(LineRead) \notin SessionKinds \ InformationalKinds
              /\ Len(yielded') = Len(yielded) + 1) =>
                 /\ UNCHANGED <<sessionID, subscriptions, callbacks,
                                subscriptionID, requestID, unknown>>
                 /\ ~panicked']_vars

\* an unsupported message has been handled right after an update of a
\* registered subscription, whose snapshot is stored
C31_Witness ==
    /\ Len(yielded) = 3 /\ scan = 3 /\ ~panicked
    /\ yielded[2].MessageType = "U" /\ yielded[3].MessageType = "FOO"
    /\ yielded[3].Data = [Values |-> <<"x", "7">>]
    /\ callbacks # <<>> /\ sessionID = "s1"

\* the fields of a line after the subscription id and the item number
FurtherFields(line) == SubSeq(line, 4, Len(line))

\* C32: ParseSessionMessage accepts a U line made of a subscription id, an
\* item number and any number (none included) of further fields, and
\* returns those fields as the values of the update.
C32_UpdateLineCarriesFields ==
    (/\ sessionMsg # NoParse /\ Head(parseLine) = "U" /\ Len(parseLine) >= 3
     /\ ~AtoiFieldFails(parseLine[2]) /\ ~AtoiFieldFails(parseLine[3])) =>
        /\ sessionMsg.ok
        /\ sessionMsg.Data.Values = FurtherFields(parseLine)

\* C33: the rebinder never runs with an unset session id: whatever the order
\* of the lines on the stream (a LOOP before any CONOK included), the step of
\* handleLoop that rebinds does not crash, and every bind_session request
\* carries a session id that a CONOK stored.
C33_RebinderHasSessionId ==
    [][(\E i \in 1..MaxStreams, ok \in BOOLEAN : Rebind(i, ok)) =>
          /\ ~panicked'
          /\ \A j \in DOMAIN bindPosts' : bindPosts'[j] # NoSession]_vars

\* C35: Values.Update never reads or writes a slot outside the snapshot,
\* whatever the token list: a skip ^n with n zero or negative ends in an
\* error or in a snapshot, never in an index out of range.
C35_UpdateStaysInRange == uNext.kind # "panic"

\* s.last[item] of a subscription after the step
StoredNext(x) == IF last'[x] = 0 THEN NoSnapshot ELSE heap'[last'[x]]
SnapshotsKept(X) == \A x \in X : StoredNext(x) = Stored(x[1], x[2])

\* C34: when Values.Update returns an error for a U line the reader
\* dispatches, the snapshot stored for the item is what it was before the
\* line and no callback is invoked: a failed update changes no stored slot.
C34_FailedUpdateKeepsSnapshot ==
    [][(updates' = updates + 1 /\ updateErr' # "") =>
          SnapshotsKept(DOMAIN last) /\ given' = given]_vars

\* what holds with the copying decoder of values.go
FailedUpdateKeepsSnapshotByCopy ==
    [][(decoder = "values.go" /\ updates' = updates + 1 /\ updateErr' # "") =>
          SnapshotsKept(DOMAIN last) /\ given' = given]_vars

\* C38: handling a U line of subscription k and item i changes the stored
\* snapshot of (k, i) and nothing else: the snapshots of the other items of
\* k and of the other subscriptions, the keys of the registry, the session
\* id and the id counters are as before.
C38_UpdateTouchesOneSnapshot ==
    [][\A k \in AllSubIDs, item \in ItemNumbers :
          (\E values \in Deltas : DispatchUpdate(k, item, values)) =>
              /\ SnapshotsKept(DOMAIN last \ {<<k, item>>})
              /\ DOMAIN subscriptions' = DOMAIN subscriptions
              /\ UNCHANGED <<sessionID, subscriptionID, requestID>>]_vars

\* two items of subscription 1 have been updated and hold different
\* snapshots
C38_Witness ==
    /\ last[<<1, 1>>] # 0 /\ last[<<1, 2>>] # 0
    /\ Stored(1, 1) # Stored(1, 2)
    /\ Len(given) = 2 /\ ~panicked

\* C39: the Values handed to a callback stay what they were when the
\* callback was called: no later update of the item, successful or failed,
\* changes their contents.
C39_GivenValuesNotAliased ==
    \A j \in DOMAIN given : heap[given[j].ref] = given[j].val

\* what holds with the copying decoder of values.go
GivenValuesNotAliasedByCopy == decoder = "values.go" => C39_GivenValuesNotAliased

\* C37: the connection counter is the number of serve tasks that have
\* started and not returned: it is never negative, it is 0 before Connect
\* and 0 again when every serve task has returned.
C37_ConnectionsCountServes ==
    /\ connections = Cardinality({s \in Streams : serve[s] = "running"})
    /\ connections >= 0
    /\ nStreams = 0 => connections = 0

\* two serve tasks were started (Connect and a rebind) and both have
\* returned
C37_Witness ==
    /\ nStreams = 2 /\ \A s \in 1..nStreams : serve[s] = "returned"
    /\ connections = 0

\* readAllMessages waits in a send on ch or on done, which only serve
\* receives from
ReaderInSend == readerPc \in {"sending", "finishing"}

\* C36: the readAllMessages task of a serve that has returned, on EOF or on
\* cancellation, terminates: it is never left in a send on the message
\* channel or on the done channel with no serve to receive.
C36_ReaderTerminates == ~(serve[1] = "returned" /\ ReaderInSend)

\* what holds when serve returns on EOF: the reader has returned
ReaderTerminatesOnEOF ==
    (serve[1] = "returned" /\ ~ctxDone) => readerPc = "exited"

====
